---------------------------- MODULE Spec2Model ----------------------------
(***************************************************************************)
(* State-machine model of the PicoTTS quality / performance layer:         *)
(*   - the decision tree cache       (pico/lib/picodtcache.c, .h)          *)
(*   - the voice and prosody model   (pico/lib/picoqualityenhance.c, .h)   *)
(*   - the excitation generator      (pico/lib/picoqualityenhance.c, .h)   *)
(* Every action is one call of a public function; the variables are the    *)
(* fields of picodt_cache_t, of the g_quality_ctx singleton and of the     *)
(* caller's noise filter and seeds, plus                                   *)
(* history variables (named in the comments) that only observe.            *)
(***************************************************************************)
EXTENDS Integers, Sequences, FiniteSets, TLC

VARIABLES
    entries,      \* picodt_cache_t.entries[PICO_DT_CACHE_SIZE], the slots written
                  \* since initialize (every other slot is EmptyEntry)
    stats,        \* picodt_cache_t.stats  (hits, misses, collisions, evictions)
    enabled,      \* picodt_cache_t.enabled
    clock,        \* picodt_cache_t.clock  (picoos_uint8)
    ticks,        \* history: increments of clock since the last clear/initialize
    stamp,        \* history: per slot, the value of ticks at its last insert or hit
    cop,          \* history: the last cache call, its arguments and its result
    firstIns,     \* history: key of the first effective insert since clear/initialize
    insKeys,      \* history: keys of the effective inserts since clear/initialize
    insCalls,     \* history: <<context_hash, tree_id, pdf_index>> of the effective
                  \* inserts since clear/initialize
    outage,       \* history: how far a disable / re-enable round has got, and the
                  \* key of the last insert called while disabled
    lastInsTick,  \* history: value of ticks read by the last effective insert
    lastReset,    \* history: "init" or "clear", whichever ran last
    voice_params,    \* g_quality_ctx.voice_params
    prosody_params,  \* g_quality_ctx.prosody_params
    noise_filter,    \* g_quality_ctx.noise_filter
    random_seed,     \* g_quality_ctx.random_seed
    initialized,     \* g_quality_ctx.initialized
    g_quality_stats, \* the statistics singleton
    qop,             \* history: the last quality call, its arguments, result, pre-state
    qprev,           \* history: the quality call before the last applied a profile
    filter,          \* a caller's pico_noise_filter_t (state, coeffs, order)
    seed,            \* callers' picoos_uint32 seeds, each as <<high 16 bits, low 16
                     \* bits>>: seed[0] feeds the shaped noise, seed[1] and seed[2]
                     \* are two runs of white noise
    trace,           \* history: per seed, the <<sample, seed>> pairs of the calls
                     \* that advanced it since the caller wrote it, oldest first
    samples,         \* history: the shaped samples returned since the filter was
                     \* initialised, newest first
    nop,             \* history: the last noise call, its arguments and its result
    fop,             \* history: the last fixed-point call, its arguments and its
                     \* result
    hop,             \* history: the last call of a context hash function, its
                     \* features and its result as <<high 16 bits, low 16 bits>>
    fft_context,     \* a caller's pico_fft_context_t *, and what it points to
    fft_mem,         \* the caller's two float arrays, by array number (empty
                     \* until the caller has made them)
    fft_allocs,      \* history: the contexts pico_fft_initialize has allocated
    fft_op,          \* history: the last transform call, its arguments and its
                     \* result
    threads,         \* per thread calling the cache: its call, its position in
                     \* the call and the locals of the call
    lock,            \* the callers' common lock: the set of threads that hold it
    locking,         \* whether the callers take the common lock round each call
    last             \* history: the part of the library the last call belongs to:
                     \* "cache", "quality", "noise", "fixed", "fft" or "hash" ("none"
                     \* before the first)

cvars == <<entries, stats, enabled, clock, ticks, stamp, cop, firstIns, insKeys,
           insCalls, outage, lastInsTick, lastReset>>

qvars == <<voice_params, prosody_params, noise_filter, random_seed, initialized,
           g_quality_stats, qop, qprev>>

nvars == <<filter, seed, trace, samples, nop>>

dvars == <<fop, hop>>

tvars == <<fft_context, fft_mem, fft_allocs, fft_op>>

mvars == <<threads, lock, locking>>

vars == <<cvars, qvars, nvars, dvars, tvars, mvars, last>>

-----------------------------------------------------------------------------
(* Program constants of the cache *)

\* picodtcache.h:57  #define PICO_DT_CACHE_SIZE 256 (desktop build)
PICO_DT_CACHE_SIZE == 256

\* picodtcache.c:45,156  the probe window: "i < 4"
ProbeWindow == 4

\* picodtcache.h:83  picoos_uint8 clock; picodtcache.h:67 picoos_uint8 access_count
ClockModulus == 256

\* picodtcache.c:42  picoos_uint8 min_access = 255
MinAccessInit == 255

-----------------------------------------------------------------------------
(* Bounds of the model *)

\* calls explored after a clear or initialize, counted in clock ticks
MaxTicks == 3

\* lookups that miss explored after a clear or initialize
MaxMisses == 1

Slots == 0 .. (PICO_DT_CACHE_SIZE - 1)

\* keys (context_hash, tree_id) offered to the calls: two hashes with primary
\* index 254, whose probe window 254, 255, 0, 1 wraps round the table, the
\* first of them under two tree ids
Keys == {<<254, 0>>, <<254, 1>>, <<510, 0>>}

\* pdf indices offered to insert
Pdfs == {0, 1}

NoKey == <<-1, -1>>

NoPdf == 0 - 1

NoSlot == 0 - 1

-----------------------------------------------------------------------------
(* Private helpers of picodtcache.c *)

\* picodtcache.c:81-84: an entry as initialize leaves it.  Only valid and
\* access_count are written; the other fields of a fresh entry are never read
\* while valid = 0 and are shown as 0.
EmptyEntry == [context_hash |-> 0, pdf_index |-> 0, tree_id |-> 0,
               valid |-> FALSE, access_count |-> 0]

\* entries[idx] of the array: the array is kept as the function from the
\* slots written since initialize to their entries, and a slot never written
\* holds EmptyEntry
Entry(ents, idx) == IF idx \in DOMAIN ents THEN ents[idx] ELSE EmptyEntry

\* history value of a slot never stamped
Stamp(idx) == IF idx \in DOMAIN stamp THEN stamp[idx] ELSE 0

\* the array with no slot written
NoEntries == [i \in {} |-> EmptyEntry]

NoStamps == [i \in {} |-> 0]

\* picodtcache.c:32-34.  PICO_DT_CACHE_SIZE is a power of two, so the mask
\* hash & (PICO_DT_CACHE_SIZE - 1) is the remainder.
get_cache_index(hash) == hash % PICO_DT_CACHE_SIZE

\* slot probed at offset i from start: (start + i) & (PICO_DT_CACHE_SIZE - 1)
probe_slot(start, i) == (start + i) % PICO_DT_CACHE_SIZE

RECURSIVE find_lru_loop(_, _, _, _, _)
find_lru_loop(ents, start_index, i, lru_index, min_access) ==
    IF i >= ProbeWindow THEN lru_index
    ELSE LET idx == probe_slot(start_index, i) IN
         IF ~Entry(ents, idx).valid THEN idx
         ELSE IF Entry(ents, idx).access_count < min_access
              THEN find_lru_loop(ents, start_index, i + 1, idx,
                                 Entry(ents, idx).access_count)
              ELSE find_lru_loop(ents, start_index, i + 1, lru_index, min_access)

RECURSIVE find_lru_loop_mru(_, _, _, _, _)
find_lru_loop_mru(ents, start_index, i, mru_index, max_access) ==
    IF i >= ProbeWindow THEN mru_index
    ELSE LET idx == probe_slot(start_index, i) IN
         IF ~Entry(ents, idx).valid THEN idx
         ELSE IF Entry(ents, idx).access_count > max_access
              THEN find_lru_loop_mru(ents, start_index, i + 1, idx,
                                     Entry(ents, idx).access_count)
              ELSE find_lru_loop_mru(ents, start_index, i + 1, mru_index, max_access)

\* find_lru_entry with the comparison of c:50 reversed: the entry with the
\* largest access_count is chosen
find_lru_entry_mru(ents, start_index) ==
    find_lru_loop_mru(ents, start_index, 0, start_index, 0 - 1)

RECURSIVE find_lru_loop_lasttie(_, _, _, _, _)
find_lru_loop_lasttie(ents, start_index, i, lru_index, min_access) ==
    IF i >= ProbeWindow THEN lru_index
    ELSE LET idx == probe_slot(start_index, i) IN
         IF ~Entry(ents, idx).valid THEN idx
         ELSE IF Entry(ents, idx).access_count <= min_access
              THEN find_lru_loop_lasttie(ents, start_index, i + 1, idx,
                                         Entry(ents, idx).access_count)
              ELSE find_lru_loop_lasttie(ents, start_index, i + 1, lru_index,
                                         min_access)

\* find_lru_entry with <= for the < of c:50: of equal access counts the last
\* one probed is chosen
find_lru_entry_lasttie(ents, start_index) ==
    find_lru_loop_lasttie(ents, start_index, 0, start_index, MinAccessInit)

\* picodtcache.c:39-57
find_lru_entry(ents, start_index) ==
    find_lru_loop(ents, start_index, 0, start_index, MinAccessInit)

\* entry_matches without the comparison of tree_id (c:145, c:160)
entry_matches_anytree(ents, idx, context_hash, tree_id) ==
    /\ Entry(ents, idx).valid
    /\ Entry(ents, idx).context_hash = context_hash

\* the entry at idx is valid and holds the key (context_hash, tree_id)
entry_matches(ents, idx, context_hash, tree_id) ==
    /\ Entry(ents, idx).valid
    /\ Entry(ents, idx).context_hash = context_hash
    /\ Entry(ents, idx).tree_id = tree_id

\* picodtcache.c:141-170: the probe offsets whose slot matches; lookup takes
\* the smallest (primary slot first, then offsets 1..3 in order)
match_offsets(ents, context_hash, tree_id) ==
    {i \in 0 .. (ProbeWindow - 1) :
        entry_matches(ents, probe_slot(get_cache_index(context_hash), i),
                      context_hash, tree_id)}

SetMin(S) == CHOOSE x \in S : \A y \in S : x <= y

\* the probe running from offset 3 down to the primary slot
last_match(found) == CHOOSE x \in found : \A y \in found : x >= y

\* picodtcache.c:144-170: the primary slot is tested first, then the offsets
\* 1, 2, 3 in this order, and the first match returns
first_match(found) == SetMin(found)

\* picodt_cache_is_enabled answering 1 whatever the flag holds
picodt_cache_is_enabled_always == TRUE

\* picodtcache.h:214-216, for the cache object of the model (cache != NULL)
picodt_cache_is_enabled == enabled # 0

\* A picoos_uint32 value is held as two 16-bit halves where its full width
\* matters, so that every intermediate value stays a small integer.
Word16 == 2 ^ 16

\* quotient and remainder of (hi * 2^k + the top k bits of lo) by d, for a
\* 16-bit lo and 0 <= k <= 16: binary long division, one bit of lo per step
RECURSIVE DivStep(_, _, _, _)
DivStep(hi, lo, d, k) ==
    IF k = 0 THEN <<hi \div d, hi % d>>
    ELSE LET prev == DivStep(hi, lo, d, k - 1)
             bit  == (lo \div (2 ^ (16 - k))) % 2
             r    == 2 * prev[2] + bit
         IN  <<2 * prev[1] + (r \div d), r % d>>

\* floor((hi * 2^16 + lo) / d)
DivWide(hi, lo, d) == DivStep(hi, lo, d, 16)[1]

\* low and high halves of x * 100 with every bit kept
Times100Lo(x) == ((x % Word16) * 100) % Word16

Times100Hi(x) == (x \div Word16) * 100 + (((x % Word16) * 100) \div Word16)

\* picodtcache.c:229-240.  hits * 100 is a picoos_uint32 product: it is
\* reduced modulo 2^32 (its high half modulo 2^16) before the division, and
\* the quotient is narrowed to picoos_uint8.  The counters themselves stay
\* below 2^30 in the runs explored, so hits + misses does not wrap.
picodt_cache_hit_rate ==
    LET total == stats.hits + stats.misses IN
    IF total = 0 THEN 0
    ELSE DivWide(Times100Hi(stats.hits) % Word16, Times100Lo(stats.hits), total)
            % 256

\* picodtcache.h:177, picodtcache.c:248: the FNV prime, 2^24 + 403
FNV_prime == 16777619

\* picodtcache.h:176, picodtcache.c:247: hash = 2166136261U (0x811C9DC5), as
\* <<high half, low half>>
FNV_offset_basis == <<33052, 40389>>

\* a ^ b on the n low bits of two non-negative values
RECURSIVE xor_bits(_, _, _)
xor_bits(a, b, n) ==
    IF n = 0 THEN 0
    ELSE ((a + b) % 2) + (2 * xor_bits(a \div 2, b \div 2, n - 1))

\* hash ^= feature for a picoos_uint8 feature: only the low byte changes
hash_xor(hash, feature) ==
    <<hash[1], (hash[2] - (hash[2] % 256)) + xor_bits(hash[2] % 256, feature, 8)>>

\* hash *= FNV_prime in picoos_uint32, on the two halves
hash_times_prime(hash) ==
    LET pl   == FNV_prime % Word16
        ph   == FNV_prime \div Word16
        low  == hash[2] * pl
        high == (hash[1] * pl) + (hash[2] * ph) + (low \div Word16)
    IN  <<high % Word16, low % Word16>>

\* picodtcache.h:168-196
picodt_compute_context_hash(phoneme, prev_phoneme, next_phoneme, stress, position) ==
    LET h1 == hash_times_prime(hash_xor(FNV_offset_basis, phoneme))
        h2 == hash_times_prime(hash_xor(h1, prev_phoneme))
        h3 == hash_times_prime(hash_xor(h2, next_phoneme))
        h4 == hash_times_prime(hash_xor(h3, stress))
    IN  hash_times_prime(hash_xor(h4, position))

\* the loop of picodt_compute_extended_hash multiplying before the xor
\* (FNV-1 in place of FNV-1a)
RECURSIVE extended_hash_loop_fnv1(_, _)
extended_hash_loop_fnv1(features, n) ==
    IF n = 0 THEN FNV_offset_basis
    ELSE hash_xor(hash_times_prime(extended_hash_loop_fnv1(features, n - 1)),
                  features[n])

\* picodtcache.c:250-253: hash after the features 1 .. n
RECURSIVE extended_hash_loop(_, _)
extended_hash_loop(features, n) ==
    IF n = 0 THEN FNV_offset_basis
    ELSE hash_times_prime(hash_xor(extended_hash_loop(features, n - 1),
                                   features[n]))

\* picodtcache.c:245-256 with num_features = Len(features)
picodt_compute_extended_hash(features) ==
    extended_hash_loop(features, Len(features))

-----------------------------------------------------------------------------
(* Voice and prosody parameter model (picoqualityenhance.c, .h)            *)
(*                                                                         *)
(* A picoos_single value is written in hundredths (1.25f is 125, 150.0f is *)
(* 15000); NaN is the one value that is not a number.  Every comparison    *)
(* with NaN is false, as in C.                                             *)

NaN == 1000 * 1000 * 1000

FloatLess(a, b) == a # NaN /\ b # NaN /\ a < b

FloatGreater(a, b) == a # NaN /\ b # NaN /\ a > b

\* picoqualityenhance.h:59-61
PICO_QUALITY_MODE_SPEED == 0

PICO_QUALITY_MODE_BALANCED == 1

PICO_QUALITY_MODE_QUALITY == 2

\* picoqualityenhance.h:63-65
PICO_DEFAULT_QUALITY_MODE == PICO_QUALITY_MODE_BALANCED

\* picoqualityenhance.h:71
PICO_NOISE_FILTER_ORDER == 8

\* picoqualityenhance.h:76-81
PICO_PITCH_SCALE_MIN == 50

PICO_PITCH_SCALE_MAX == 200

PICO_SPEED_SCALE_MIN == 50

PICO_SPEED_SCALE_MAX == 300

PICO_FORMANT_SHIFT_MIN == -50000

PICO_FORMANT_SHIFT_MAX == 50000

\* picoqualityenhance.h:405-412
PICO_DEFAULT_PITCH_SCALE == 100

PICO_DEFAULT_SPEED_SCALE == 100

PICO_DEFAULT_FORMANT_SHIFT == 0

PICO_DEFAULT_EMPHASIS_SCALE == 100

PICO_DEFAULT_PAUSE_SCALE == 100

PICO_DEFAULT_QUESTION_BOOST == 50

\* picoqualityenhance.h:415-426
PICO_MALE_PITCH_SCALE == 80

PICO_MALE_FORMANT_SHIFT == -12000

PICO_FEMALE_PITCH_SCALE == 125

PICO_FEMALE_FORMANT_SHIFT == 15000

PICO_CHILD_PITCH_SCALE == 150

PICO_CHILD_SPEED_SCALE == 110

PICO_ROBOT_PITCH_SCALE == 90

PICO_ROBOT_EMPHASIS_SCALE == 50

PICO_SLOW_SPEED_SCALE == 75

PICO_SLOW_PAUSE_SCALE == 130

PICO_FAST_SPEED_SCALE == 140

PICO_FAST_PAUSE_SCALE == 80

\* picoqualityenhance.h:345-353
PICO_VOICE_PROFILE_DEFAULT == 0

PICO_VOICE_PROFILE_MALE == 1

PICO_VOICE_PROFILE_FEMALE == 2

PICO_VOICE_PROFILE_CHILD == 3

PICO_VOICE_PROFILE_ROBOT == 4

PICO_VOICE_PROFILE_SLOW == 5

PICO_VOICE_PROFILE_FAST == 6

\* picoqualityenhance.c:80
InitialSeed == 12345

\* picoqualityenhance.c:207-208  clamp bounds 0.5f and 2.0f
ProsodyScaleMin == 50

ProsodyScaleMax == 200

\* picoqualityenhance.c:210-211
QuestionBoostMin == 0

QuestionBoostMax == 100

\* picoqualityenhance.c:122-153 (params is not null)
pico_validate_voice_params(params) ==
    IF \/ FloatLess(params.pitch_scale, PICO_PITCH_SCALE_MIN)
       \/ FloatGreater(params.pitch_scale, PICO_PITCH_SCALE_MAX)
    THEN "PICO_ERR_OTHER"
    ELSE IF \/ FloatLess(params.speed_scale, PICO_SPEED_SCALE_MIN)
            \/ FloatGreater(params.speed_scale, PICO_SPEED_SCALE_MAX)
    THEN "PICO_ERR_OTHER"
    ELSE IF \/ FloatLess(params.formant_shift, PICO_FORMANT_SHIFT_MIN)
            \/ FloatGreater(params.formant_shift, PICO_FORMANT_SHIFT_MAX)
    THEN "PICO_ERR_OTHER"
    ELSE IF \/ params.quality_mode < PICO_QUALITY_MODE_SPEED
            \/ params.quality_mode > PICO_QUALITY_MODE_QUALITY
    THEN "PICO_ERR_OTHER"
    ELSE "PICO_OK"

\* picoqualityenhance.c:393-398
pico_clamp_float(value, min, max) ==
    IF FloatLess(value, min) THEN min
    ELSE IF FloatGreater(value, max) THEN max
    ELSE value

\* picoqualityenhance.c:207-211: the record as set_prosody_params clamps it
clamped_prosody(params) ==
    [emphasis_scale |-> pico_clamp_float(params.emphasis_scale,
                                         ProsodyScaleMin, ProsodyScaleMax),
     pause_scale    |-> pico_clamp_float(params.pause_scale,
                                         ProsodyScaleMin, ProsodyScaleMax),
     question_boost |-> IF params.question_boost < QuestionBoostMin
                        THEN QuestionBoostMin
                        ELSE IF params.question_boost > QuestionBoostMax
                        THEN QuestionBoostMax
                        ELSE params.question_boost]

\* picoqualityenhance.c:410-412: the voice fields reset before the switch
voice_reset(voice) ==
    [voice EXCEPT !.pitch_scale = PICO_DEFAULT_PITCH_SCALE,
                  !.speed_scale = PICO_DEFAULT_SPEED_SCALE,
                  !.formant_shift = PICO_DEFAULT_FORMANT_SHIFT]

\* picoqualityenhance.c:417-452: the voice assignments of the switch
voice_switch(params, profile) ==
    CASE profile = PICO_VOICE_PROFILE_MALE ->
             [params EXCEPT !.pitch_scale = PICO_MALE_PITCH_SCALE,
                            !.formant_shift = PICO_MALE_FORMANT_SHIFT]
      [] profile = PICO_VOICE_PROFILE_FEMALE ->
             [params EXCEPT !.pitch_scale = PICO_FEMALE_PITCH_SCALE,
                            !.formant_shift = PICO_FEMALE_FORMANT_SHIFT]
      [] profile = PICO_VOICE_PROFILE_CHILD ->
             [params EXCEPT !.pitch_scale = PICO_CHILD_PITCH_SCALE,
                            !.speed_scale = PICO_CHILD_SPEED_SCALE]
      [] profile = PICO_VOICE_PROFILE_ROBOT ->
             [params EXCEPT !.pitch_scale = PICO_ROBOT_PITCH_SCALE]
      [] profile = PICO_VOICE_PROFILE_SLOW ->
             [params EXCEPT !.speed_scale = PICO_SLOW_SPEED_SCALE]
      [] profile = PICO_VOICE_PROFILE_FAST ->
             [params EXCEPT !.speed_scale = PICO_FAST_SPEED_SCALE]
      [] OTHER -> params

\* profile_voice with the break of the FEMALE case missing (c:426): the
\* assignments of the CHILD case run as well
profile_voice_fallthrough(voice, profile) ==
    IF profile = PICO_VOICE_PROFILE_FEMALE
    THEN voice_switch(voice_switch(voice_reset(voice), PICO_VOICE_PROFILE_FEMALE),
                      PICO_VOICE_PROFILE_CHILD)
    ELSE voice_switch(voice_reset(voice), profile)

\* profile_voice without the reset of speed_scale (c:411)
profile_voice_keepspeed(voice, profile) ==
    voice_switch([voice EXCEPT !.pitch_scale = PICO_DEFAULT_PITCH_SCALE,
                               !.formant_shift = PICO_DEFAULT_FORMANT_SHIFT],
                 profile)

\* picoqualityenhance.c:406-452: the local params after the reset to defaults
\* and the switch; quality_mode is copied from the active set and kept
profile_voice(voice, profile) ==
    voice_switch(voice_reset(voice), profile)

\* picoqualityenhance.c:407-452: the local prosody after the reset and the
\* switch; question_boost is copied from the active set and kept
profile_prosody(prosody, profile) ==
    LET reset == [prosody EXCEPT !.emphasis_scale = PICO_DEFAULT_EMPHASIS_SCALE,
                                 !.pause_scale = PICO_DEFAULT_PAUSE_SCALE]
    IN
    CASE profile = PICO_VOICE_PROFILE_ROBOT ->
             [reset EXCEPT !.emphasis_scale = PICO_ROBOT_EMPHASIS_SCALE]
      [] profile = PICO_VOICE_PROFILE_SLOW ->
             [reset EXCEPT !.pause_scale = PICO_SLOW_PAUSE_SCALE]
      [] profile = PICO_VOICE_PROFILE_FAST ->
             [reset EXCEPT !.pause_scale = PICO_FAST_PAUSE_SCALE]
      [] OTHER -> reset

\* picoqualityenhance.c:58-61, 188-191
DefaultVoice == [pitch_scale   |-> PICO_DEFAULT_PITCH_SCALE,
                 speed_scale   |-> PICO_DEFAULT_SPEED_SCALE,
                 formant_shift |-> PICO_DEFAULT_FORMANT_SHIFT,
                 quality_mode  |-> PICO_DEFAULT_QUALITY_MODE]

\* picoqualityenhance.c:64-66, 232-234
DefaultProsody == [emphasis_scale |-> PICO_DEFAULT_EMPHASIS_SCALE,
                   pause_scale    |-> PICO_DEFAULT_PAUSE_SCALE,
                   question_boost |-> PICO_DEFAULT_QUESTION_BOOST]

\* a state or coeffs array of all zeros; element i of the C array is the
\* element i + 1 of the sequence
ZeroVector == [i \in 1 .. PICO_NOISE_FILTER_ORDER |-> 0]

\* picoqualityenhance.c:482-485
ZeroQualityStats == [noise_samples_generated |-> 0, filter_updates |-> 0,
                     pitch_adjustments |-> 0, formant_shifts |-> 0]

NoQop == [op |-> "none", null |-> FALSE, voice |-> DefaultVoice,
          prosody |-> DefaultProsody, mode |-> 0, profile |-> 0,
          ret |-> "PICO_OK", pre_voice |-> DefaultVoice,
          pre_prosody |-> DefaultProsody, pre_initialized |-> 0,
          ever_init |-> FALSE]

\* picoqualityenhance.c:40-45: static storage, only .initialized = 0 is
\* written, so every other field starts as zero
QualityInit ==
    /\ voice_params = [pitch_scale |-> 0, speed_scale |-> 0, formant_shift |-> 0,
                       quality_mode |-> 0]
    /\ prosody_params = [emphasis_scale |-> 0, pause_scale |-> 0,
                         question_boost |-> 0]
    /\ noise_filter = [state |-> ZeroVector, coeffs |-> ZeroVector, order |-> 0]
    /\ random_seed = 0
    /\ initialized = 0
    /\ g_quality_stats = ZeroQualityStats
    /\ qop = NoQop
    /\ qprev = FALSE

\* ever_init: pico_quality_init had initialized the context before this call
QualityCall(name) ==
    [NoQop EXCEPT !.op = name, !.pre_voice = voice_params,
                  !.pre_prosody = prosody_params, !.pre_initialized = initialized,
                  !.ever_init = qop.ever_init \/ initialized # 0]

Remember ==
    qprev' = (qop.op = "apply_voice_profile" /\ qop.profile \in 0 .. 6)

\* pico_quality_init without the early return of c:53-55
pico_quality_init_always ==
    /\ voice_params' = DefaultVoice
    /\ prosody_params' = DefaultProsody
    /\ noise_filter' = [state |-> ZeroVector, coeffs |-> ZeroVector,
                        order |-> PICO_NOISE_FILTER_ORDER]
    /\ random_seed' = InitialSeed
    /\ g_quality_stats' = ZeroQualityStats
    /\ initialized' = 1
    /\ qop' = QualityCall("quality_init")
    /\ Remember

\* pico_quality_init without the call of pico_reset_quality_stats (c:83)
pico_quality_init_keepstats ==
    /\ IF initialized # 0
       THEN UNCHANGED <<voice_params, prosody_params, noise_filter, random_seed,
                        initialized, g_quality_stats>>
       ELSE /\ voice_params' = DefaultVoice
            /\ prosody_params' = DefaultProsody
            /\ noise_filter' = [state |-> ZeroVector, coeffs |-> ZeroVector,
                                order |-> PICO_NOISE_FILTER_ORDER]
            /\ random_seed' = InitialSeed
            /\ initialized' = 1
            /\ UNCHANGED g_quality_stats
    /\ qop' = QualityCall("quality_init")
    /\ Remember

\* picoqualityenhance.c:51-88
pico_quality_init ==
    /\ IF initialized # 0
       THEN UNCHANGED <<voice_params, prosody_params, noise_filter, random_seed,
                        initialized, g_quality_stats>>
       ELSE /\ voice_params' = DefaultVoice
            /\ prosody_params' = DefaultProsody
            /\ noise_filter' = [state |-> ZeroVector, coeffs |-> ZeroVector,
                                order |-> PICO_NOISE_FILTER_ORDER]
            /\ random_seed' = InitialSeed
            /\ g_quality_stats' = ZeroQualityStats
            /\ initialized' = 1
    /\ qop' = QualityCall("quality_init")
    /\ Remember

\* pico_quality_cleanup that resets the statistics with the flag
pico_quality_cleanup_stats ==
    /\ initialized' = 0
    /\ g_quality_stats' = ZeroQualityStats
    /\ qop' = QualityCall("quality_cleanup")
    /\ Remember
    /\ UNCHANGED <<voice_params, prosody_params, noise_filter, random_seed>>

\* picoqualityenhance.c:90-100
pico_quality_cleanup ==
    /\ initialized' = 0
    /\ qop' = QualityCall("quality_cleanup")
    /\ Remember
    /\ UNCHANGED <<voice_params, prosody_params, noise_filter, random_seed,
                   g_quality_stats>>

\* picoqualityenhance.c:102-111
pico_set_quality_mode(mode) ==
    LET ok == ~(mode < PICO_QUALITY_MODE_SPEED \/ mode > PICO_QUALITY_MODE_QUALITY)
    IN
    /\ voice_params' = IF ok THEN [voice_params EXCEPT !.quality_mode = mode]
                       ELSE voice_params
    /\ qop' = [QualityCall("set_quality_mode") EXCEPT
                 !.mode = mode,
                 !.ret = IF ok THEN "PICO_OK" ELSE "PICO_ERR_OTHER"]
    /\ Remember
    /\ UNCHANGED <<prosody_params, noise_filter, random_seed, initialized,
                   g_quality_stats>>

\* picoqualityenhance.c:155-173; is_null: the params pointer is NULL
pico_set_voice_params(is_null, params) ==
    LET result == IF is_null THEN "PICO_ERR_NULLPTR_ACCESS"
                  ELSE pico_validate_voice_params(params)
    IN
    /\ voice_params' = IF result = "PICO_OK" THEN params ELSE voice_params
    /\ qop' = [QualityCall("set_voice_params") EXCEPT
                 !.null = is_null, !.voice = params, !.ret = result]
    /\ Remember
    /\ UNCHANGED <<prosody_params, noise_filter, random_seed, initialized,
                   g_quality_stats>>

\* picoqualityenhance.c:175-184; the record written to *params is kept in
\* qop.voice
pico_get_voice_params(is_null) ==
    /\ qop' = [QualityCall("get_voice_params") EXCEPT
                 !.null = is_null,
                 !.voice = IF is_null THEN @ ELSE voice_params,
                 !.ret = IF is_null THEN "PICO_ERR_NULLPTR_ACCESS" ELSE "PICO_OK"]
    /\ Remember
    /\ UNCHANGED <<voice_params, prosody_params, noise_filter, random_seed,
                   initialized, g_quality_stats>>

\* picoqualityenhance.c:186-194
pico_reset_voice_params ==
    /\ voice_params' = DefaultVoice
    /\ qop' = QualityCall("reset_voice_params")
    /\ Remember
    /\ UNCHANGED <<prosody_params, noise_filter, random_seed, initialized,
                   g_quality_stats>>

\* picoqualityenhance.c:200-217; is_null: the params pointer is NULL
pico_set_prosody_params(is_null, params) ==
    /\ prosody_params' = IF is_null THEN prosody_params
                         ELSE clamped_prosody(params)
    /\ qop' = [QualityCall("set_prosody_params") EXCEPT
                 !.null = is_null, !.prosody = params,
                 !.ret = IF is_null THEN "PICO_ERR_NULLPTR_ACCESS" ELSE "PICO_OK"]
    /\ Remember
    /\ UNCHANGED <<voice_params, noise_filter, random_seed, initialized,
                   g_quality_stats>>

\* picoqualityenhance.c:219-228; the record written to *params is kept in
\* qop.prosody
pico_get_prosody_params(is_null) ==
    /\ qop' = [QualityCall("get_prosody_params") EXCEPT
                 !.null = is_null,
                 !.prosody = IF is_null THEN @ ELSE prosody_params,
                 !.ret = IF is_null THEN "PICO_ERR_NULLPTR_ACCESS" ELSE "PICO_OK"]
    /\ Remember
    /\ UNCHANGED <<voice_params, prosody_params, noise_filter, random_seed,
                   initialized, g_quality_stats>>

\* picoqualityenhance.c:230-237
pico_reset_prosody_params ==
    /\ prosody_params' = DefaultProsody
    /\ qop' = QualityCall("reset_prosody_params")
    /\ Remember
    /\ UNCHANGED <<voice_params, noise_filter, random_seed, initialized,
                   g_quality_stats>>

\* picoqualityenhance.c:404-459: the results of the two set calls at lines
\* 455-456 are dropped and PICO_OK is returned
pico_apply_voice_profile(profile) ==
    LET params  == profile_voice(voice_params, profile)
        prosody == profile_prosody(prosody_params, profile)
    IN
    /\ voice_params' = IF pico_validate_voice_params(params) = "PICO_OK"
                       THEN params ELSE voice_params
    /\ prosody_params' = clamped_prosody(prosody)
    /\ qop' = [QualityCall("apply_voice_profile") EXCEPT !.profile = profile]
    /\ Remember
    /\ UNCHANGED <<noise_filter, random_seed, initialized, g_quality_stats>>

-----------------------------------------------------------------------------
(* Excitation generation (picoqualityenhance.c:243-345).  The filter and   *)
(* the seeds are objects of the caller, as in example_noise_shaping.       *)

\* picoqualityenhance.c:282  the multiplier of the generator
LcgMultiplier == 1664525

\* picoqualityenhance.c:282  the increment of the generator
LcgIncrement == 1013904223

\* picoqualityenhance.c:285  the offset taken from the sample
NoiseOffset == 16384

\* conversion of an integer to picoos_int16 (the value modulo 2^16, as every
\* supported build converts)
Int16(x) == ((x + 32768) % Word16) - 32768

\* picoqualityenhance.c:282: *seed * 1664525U + 1013904223U in picoos_uint32,
\* on the two halves of the seed
lcg_next(s) ==
    LET ml   == LcgMultiplier % Word16
        mh   == LcgMultiplier \div Word16
        low  == s[2] * ml + (LcgIncrement % Word16)
        high == s[1] * ml + s[2] * mh + (low \div Word16)
                    + (LcgIncrement \div Word16)
    IN  <<high % Word16, low % Word16>>

\* white_noise_sample reading the statistics as well as the seed
white_noise_sample_stats(s) ==
    Int16(Int16(s[1] % Word16) - NoiseOffset + g_quality_stats.filter_updates)

\* picoqualityenhance.c:285 for the updated seed s:
\* (picoos_int16)((s >> 16) & 0xFFFF) - 16384, converted to the picoos_int16
\* return type
white_noise_sample(s) == Int16(Int16(s[1] % Word16) - NoiseOffset)

\* picoqualityenhance.c:305-310: output after the taps 1 .. i of the filter.
\* white_noise << 8 is the product by 256 (also for a negative sample, as
\* every supported build shifts) and x >> 7 the floor of x / 128.
RECURSIVE lpc_output(_, _, _)
lpc_output(f, white_noise, i) ==
    IF i = 0 THEN white_noise * 256
    ELSE lpc_output(f, white_noise, i - 1) - ((f.coeffs[i] * f.state[i]) \div 128)

\* the state buffer without the shift of c:313-315: only state[0] is stored
shifted_state_noshift(f, out) == [f.state EXCEPT ![1] = out]

\* picoqualityenhance.c:313-318: state[i] = state[i-1] for i = order-1 .. 1,
\* then state[0] = out (index i of the code is index i + 1 here)
shifted_state(f, out) ==
    [i \in 1 .. PICO_NOISE_FILTER_ORDER |->
        IF i = 1 THEN out
        ELSE IF i <= f.order THEN f.state[i - 1]
        ELSE f.state[i]]

\* a filter object before pico_noise_filter_init has written it: no call
\* reads it while ready is FALSE
NoFilter == [state |-> ZeroVector, coeffs |-> ZeroVector, order |-> 0,
             ready |-> FALSE]

NoNop == [op |-> "none", run |-> 0, null |-> FALSE, order |-> 0,
          coeffs |-> ZeroVector, ret |-> 0, pre_seed |-> <<0, 0>>,
          pre_filter |-> NoFilter]

\* example_noise_shaping (quality_example.c:205): the seeds start at 12345
ExampleSeed == <<12345 \div Word16, 12345 % Word16>>

NoiseInit ==
    /\ filter = NoFilter
    /\ seed = [r \in 0 .. 2 |-> ExampleSeed]
    /\ trace = [r \in 0 .. 2 |-> <<>>]
    /\ samples = <<>>
    /\ nop = NoNop

NoiseCall(name) == [NoNop EXCEPT !.op = name, !.pre_filter = filter]

\* the caller writes one value to all its seeds (quality_example.c:205,213)
\* and starts the two runs of white noise afresh
start_runs(s) ==
    /\ seed' = [r \in 0 .. 2 |-> s]
    /\ trace' = [r \in 0 .. 2 |-> <<>>]
    /\ nop' = [NoiseCall("start_runs") EXCEPT !.pre_seed = s]
    /\ UNCHANGED <<filter, samples>>

\* picoqualityenhance.c:243-276 (filter non-null; null_coeffs: coeffs is NULL)
pico_noise_filter_init(null_coeffs, coeffs, order) ==
    LET result == IF null_coeffs THEN "PICO_ERR_NULLPTR_ACCESS"
                  ELSE IF order <= 0 \/ order > PICO_NOISE_FILTER_ORDER
                  THEN "PICO_ERR_OTHER"
                  ELSE "PICO_OK"
    IN
    /\ filter' = IF result # "PICO_OK" THEN filter
                 ELSE [state  |-> ZeroVector,
                       coeffs |-> [i \in 1 .. PICO_NOISE_FILTER_ORDER |->
                                     IF i <= order THEN coeffs[i] ELSE 0],
                       order  |-> order,
                       ready  |-> TRUE]
    /\ samples' = IF result # "PICO_OK" THEN samples ELSE <<>>
    /\ nop' = [NoiseCall("noise_filter_init") EXCEPT
                 !.null = null_coeffs, !.order = order, !.coeffs = coeffs,
                 !.ret = result]
    /\ UNCHANGED <<seed, trace>>

\* picoqualityenhance.c:278-286 on the seed of run r
pico_generate_white_noise(r) ==
    LET next == lcg_next(seed[r])
        out  == white_noise_sample(next)
    IN
    /\ seed' = [seed EXCEPT ![r] = next]
    /\ trace' = [trace EXCEPT ![r] = Append(@, <<out, next>>)]
    /\ nop' = [NoiseCall("generate_white_noise") EXCEPT
                 !.run = r, !.pre_seed = seed[r], !.ret = out]
    /\ UNCHANGED <<filter, samples>>

\* pico_generate_shaped_noise storing output >> 7 in place of output >> 8
\* (c:318)
pico_generate_shaped_noise_shift7(is_null) ==
    IF is_null
    THEN /\ nop' = [NoiseCall("generate_shaped_noise") EXCEPT !.null = TRUE]
         /\ UNCHANGED <<filter, seed, trace, samples, g_quality_stats>>
    ELSE LET next        == lcg_next(seed[0])
             white_noise == white_noise_sample(next)
             output      == lpc_output(filter, white_noise, filter.order)
             out         == Int16(output \div 128)
         IN
         /\ seed' = [seed EXCEPT ![0] = next]
         /\ filter' = [filter EXCEPT !.state = shifted_state(filter, out)]
         /\ g_quality_stats' = [g_quality_stats EXCEPT
                                  !.noise_samples_generated = @ + 1]
         /\ samples' = <<out>> \o samples
         /\ trace' = [trace EXCEPT ![0] = Append(@, <<out, next>>)]
         /\ nop' = [NoiseCall("generate_shaped_noise") EXCEPT
                      !.pre_seed = seed[0], !.ret = out]

\* picoqualityenhance.c:288-324 on the caller's filter and seed[0];
\* is_null: the filter or the seed pointer is NULL
pico_generate_shaped_noise(is_null) ==
    IF is_null
    THEN /\ nop' = [NoiseCall("generate_shaped_noise") EXCEPT !.null = TRUE]
         /\ UNCHANGED <<filter, seed, trace, samples, g_quality_stats>>
    ELSE LET next        == lcg_next(seed[0])
             white_noise == white_noise_sample(next)
             output      == lpc_output(filter, white_noise, filter.order)
             out         == Int16(output \div 256)
         IN
         /\ seed' = [seed EXCEPT ![0] = next]
         /\ filter' = [filter EXCEPT !.state = shifted_state(filter, out)]
         /\ g_quality_stats' = [g_quality_stats EXCEPT
                                  !.noise_samples_generated = @ + 1]
         /\ samples' = <<out>> \o samples
         /\ trace' = [trace EXCEPT ![0] = Append(@, <<out, next>>)]
         /\ nop' = [NoiseCall("generate_shaped_noise") EXCEPT
                      !.pre_seed = seed[0], !.ret = out]

\* pico_noise_filter_update copying all PICO_NOISE_FILTER_ORDER coefficients
\* instead of the first order of them
pico_noise_filter_update_all(null_coeffs, coeffs) ==
    IF null_coeffs
    THEN /\ nop' = [NoiseCall("noise_filter_update") EXCEPT
                      !.null = TRUE, !.ret = "PICO_ERR_NULLPTR_ACCESS"]
         /\ UNCHANGED <<filter, seed, trace, samples, g_quality_stats>>
    ELSE /\ filter' = [filter EXCEPT !.coeffs = coeffs]
         /\ g_quality_stats' = [g_quality_stats EXCEPT !.filter_updates = @ + 1]
         /\ nop' = [NoiseCall("noise_filter_update") EXCEPT
                      !.coeffs = coeffs, !.ret = "PICO_OK"]
         /\ UNCHANGED <<seed, trace, samples>>

\* picoqualityenhance.c:326-345; null_coeffs: the filter or the coeffs
\* pointer is NULL (one test, c:332)
pico_noise_filter_update(null_coeffs, coeffs) ==
    IF null_coeffs
    THEN /\ nop' = [NoiseCall("noise_filter_update") EXCEPT
                      !.null = TRUE, !.ret = "PICO_ERR_NULLPTR_ACCESS"]
         /\ UNCHANGED <<filter, seed, trace, samples, g_quality_stats>>
    ELSE /\ filter' = [filter EXCEPT
                         !.coeffs = [i \in 1 .. PICO_NOISE_FILTER_ORDER |->
                                       IF i <= filter.order THEN coeffs[i]
                                       ELSE filter.coeffs[i]]]
         /\ g_quality_stats' = [g_quality_stats EXCEPT !.filter_updates = @ + 1]
         /\ nop' = [NoiseCall("noise_filter_update") EXCEPT
                      !.coeffs = coeffs, !.ret = "PICO_OK"]
         /\ UNCHANGED <<seed, trace, samples>>

-----------------------------------------------------------------------------
(* Q15 fixed-point arithmetic (picofixedpoint.h).  pico_q15_t is int16_t,   *)
(* pico_q31_t is int32_t; the intermediate results are int32_t.             *)

PICO_Q15_SHIFT == 15
PICO_Q15_ONE == 2 ^ PICO_Q15_SHIFT
PICO_Q15_MIN == 0 - 32768
PICO_Q15_MAX == 32767

\* x >> PICO_Q15_SHIFT of a signed value (arithmetic shift: the floor)
ShiftRight15(x) == x \div PICO_Q15_ONE

\* pico_q15_mult: the product as int32_t, shifted, then narrowed by the cast
\* to pico_q15_t, which keeps the low 16 bits
pico_q15_mult(a, b) == Int16(ShiftRight15(a * b))

\* the cast alone, in place of the two comparisons
pico_q15_add_sat_wrap(a, b) == Int16(a + b)

\* pico_q15_add_sat
pico_q15_add_sat(a, b) ==
    LET result == a + b
    IN  IF result > PICO_Q15_MAX THEN PICO_Q15_MAX
        ELSE IF result < PICO_Q15_MIN THEN PICO_Q15_MIN
        ELSE Int16(result)

\* pico_q15_sub_sat
pico_q15_sub_sat(a, b) ==
    LET result == a - b
    IN  IF result > PICO_Q15_MAX THEN PICO_Q15_MAX
        ELSE IF result < PICO_Q15_MIN THEN PICO_Q15_MIN
        ELSE Int16(result)

\* The accumulator acc of pico_q15_dot_product, a pico_q31_t, is held as
\* <<acc >> 15, acc mod 2^15>>; it is within int32_t exactly when its first
\* part is within -2^16 .. 2^16 - 1.
Acc(x) == <<ShiftRight15(x), x % PICO_Q15_ONE>>

AccAdd(acc, p) ==
    LET low == acc[2] + p[2]
    IN  <<acc[1] + p[1] + (low \div PICO_Q15_ONE), low % PICO_Q15_ONE>>

AccInRange(acc) == acc[1] \in (0 - Word16) .. (Word16 - 1)

\* the value an int32_t addition leaves when it wraps around
AccWrap(acc) == <<((acc[1] + Word16) % (2 * Word16)) - Word16, acc[2]>>

\* the loop of pico_q15_dot_product over a[1 .. n], b[1 .. n]: the
\* accumulator (as a wrapping addition leaves it) and whether one of the
\* additions overflowed int32_t
RECURSIVE dot_product_loop(_, _, _)
dot_product_loop(a, b, n) ==
    IF n = 0 THEN [acc |-> Acc(0), overflow |-> FALSE]
    ELSE LET before == dot_product_loop(a, b, n - 1)
             sum    == AccAdd(before.acc, Acc(a[n] * b[n]))
         IN  [acc |-> AccWrap(sum),
              overflow |-> before.overflow \/ ~AccInRange(sum)]

\* pico_q15_dot_product(a, b, Len(a)): the outcomes of the call.  A signed
\* overflow of acc += ... is undefined: the addition wraps around, or the
\* program is stopped at it (a build that traps on overflow).
pico_q15_dot_product(a, b) ==
    LET loop == dot_product_loop(a, b, Len(a))
    IN  IF loop.overflow
        THEN {[trap |-> FALSE, ret |-> loop.acc[1]], [trap |-> TRUE, ret |-> 0]}
        ELSE {[trap |-> FALSE, ret |-> loop.acc[1]]}

\* the Newton-Raphson loop of pico_q15_sqrt_approx (picofixedpoint.c:36-40)
\* from iteration i on: the last guess and whether an iteration divided by
\* a guess of 0.  x << PICO_Q15_SHIFT fits int32_t for every int16_t x.
\* A division by 0 that does not stop the program gives the quotient 0
\* (the integer divide of ARM).
RECURSIVE sqrt_loop(_, _, _)
sqrt_loop(x, guess, i) ==
    IF i = 4 THEN [guess |-> guess, div0 |-> FALSE]
    ELSE LET x_scaled == x * PICO_Q15_ONE
             div      == IF guess = 0 THEN 0 ELSE x_scaled \div guess
             rest     == sqrt_loop(x, (guess + div) \div 2, i + 1)
         IN  [guess |-> rest.guess, div0 |-> rest.div0 \/ guess = 0]

\* pico_q15_sqrt_approx(x), picofixedpoint.c:28-43: the outcomes of the
\* call.  x == PICO_Q15_ONE compares an int16_t with 32768.  A division by
\* zero is undefined: the program is stopped at it (the divide of x86), or
\* it goes on with the quotient 0.  wide is guess before the cast of c:42.
pico_q15_sqrt_approx(x) ==
    IF x <= 0 THEN {[trap |-> FALSE, fault |-> "none", wide |-> 0, ret |-> 0]}
    ELSE IF x = PICO_Q15_ONE
    THEN {[trap |-> FALSE, fault |-> "none", wide |-> PICO_Q15_ONE,
           ret |-> Int16(PICO_Q15_ONE)]}
    ELSE LET loop == sqrt_loop(x, x \div 2, 0)
             done == [trap |-> FALSE,
                      fault |-> IF loop.div0 THEN "division by zero" ELSE "none",
                      wide |-> loop.guess, ret |-> Int16(loop.guess)]
         IN  IF loop.div0
             THEN {done, [trap |-> TRUE, fault |-> "division by zero",
                          wide |-> 0, ret |-> 0]}
             ELSE {done}

\* the three 15-bit digits of a magnitude below 2^31, lowest first
Digits(m) ==
    <<m % PICO_Q15_ONE, (m \div PICO_Q15_ONE) % PICO_Q15_ONE,
      m \div (PICO_Q15_ONE * PICO_Q15_ONE)>>

\* the magnitude of a value of at most 31 bits
Magnitude(v) == IF v < 0 THEN 0 - v ELSE v

\* (a * b) >> PICO_Q15_SHIFT for two int32_t values of at most 31 bits
\* each, the product taken in int32_t: whether the product overflows
\* int32_t, and the shifted value of the product as a wrapping
\* multiplication leaves it.  The product is formed digit by digit (n0 ..
\* n3, top), so that the 64-bit value is never held in one number.
MultShift(a, b) ==
    LET B   == PICO_Q15_ONE
        x   == Digits(Magnitude(a))
        y   == Digits(Magnitude(b))
        neg == (a < 0) # (b < 0)
        c0  == x[1] * y[1]
        c1  == (x[1] * y[2]) + (x[2] * y[1])
        c2  == (x[1] * y[3]) + (x[2] * y[2]) + (x[3] * y[1])
        c3  == (x[2] * y[3]) + (x[3] * y[2])
        c4  == x[3] * y[3]
        n0  == c0 % B
        t1  == c1 + (c0 \div B)
        n1  == t1 % B
        t2  == c2 + (t1 \div B)
        n2  == t2 % B
        t3  == c3 + (t2 \div B)
        n3  == t3 % B
        top == c4 + (t3 \div B)
        fits == /\ n3 = 0
                /\ top = 0
                /\ \/ n2 <= 1
                   \/ neg /\ n2 = 2 /\ n1 = 0 /\ n0 = 0
        \* bits 15 .. 31 of the magnitude, and of the wrapped product
        high == n1 + ((n2 % 4) * B)
        bits == IF ~neg THEN high
                ELSE IF n0 = 0 THEN ((4 * B) - high) % (4 * B)
                ELSE ((4 * B) - 1) - high
    IN  [overflow |-> ~fits,
         value |-> IF bits >= 2 * B THEN bits - (4 * B) ELSE bits]

\* the Newton-Raphson loop of pico_q15_recip_approx (picofixedpoint.c:62-66)
\* from iteration i on: the last guess, as wrapping multiplications leave
\* it, and whether one of the two multiplications of an iteration
\* overflowed int32_t
RECURSIVE recip_loop(_, _, _)
recip_loop(x, guess, i) ==
    IF i = 3 THEN [guess |-> guess, overflow |-> FALSE]
    ELSE LET prod == MultShift(x, guess)
             diff == (2 * PICO_Q15_ONE) - prod.value
             next == MultShift(guess, diff)
             rest == recip_loop(x, next.value, i + 1)
         IN  [guess |-> rest.guess,
              overflow |-> rest.overflow \/ prod.overflow \/ next.overflow]

\* pico_q15_recip_approx(x), picofixedpoint.c:49-69: the outcomes of the
\* call.  The division of c:58 has a negative dividend and truncates
\* towards zero.  A signed overflow is undefined: the multiplication wraps
\* around, or the program is stopped at it.  wide is guess before the cast
\* of c:68.
pico_q15_recip_approx(x) ==
    IF x = 0
    THEN {[trap |-> FALSE, fault |-> "none", wide |-> PICO_Q15_MAX,
           ret |-> PICO_Q15_MAX]}
    ELSE IF x = PICO_Q15_ONE
    THEN {[trap |-> FALSE, fault |-> "none", wide |-> PICO_Q15_ONE,
           ret |-> Int16(PICO_Q15_ONE)]}
    ELSE LET one   == PICO_Q15_ONE * PICO_Q15_ONE
             guess == IF x > 0 THEN one \div x ELSE 0 - (one \div (0 - x))
             loop  == recip_loop(x, guess, 0)
             done  == [trap |-> FALSE,
                       fault |-> IF loop.overflow THEN "signed overflow"
                                 ELSE "none",
                       wide |-> loop.guess, ret |-> Int16(loop.guess)]
         IN  IF loop.overflow
             THEN {done, [trap |-> TRUE, fault |-> "signed overflow",
                          wide |-> 0, ret |-> 0]}
             ELSE {done}

\* fault: the undefined operation a call of the two approximations ran
\* into; wide: the 32-bit result they narrow to pico_q15_t
NoFop == [op |-> "none", a |-> <<>>, b |-> <<>>, ret |-> 0, trap |-> FALSE,
          fault |-> "none", wide |-> 0]

NoHop == [op |-> "none", features |-> <<>>, ret |-> <<0, 0>>]

FixedInit == fop = NoFop /\ hop = NoHop

-----------------------------------------------------------------------------
(* Spectral transform (picofft.c, generic backend).  The arrays hold       *)
(* values by what they are, not by their digits: sample k of a signal, the *)
(* real or imaginary part of bin k of its spectrum, zero, what the caller  *)
(* never wrote, or anything else.  Index i of the code is index i + 1.     *)

PICO_FFT_SIZE_256 == 256
PICO_FFT_SIZE_512 == 512

\* the signals a caller transforms
MaxSignals == 2
Signals == 1 .. MaxSignals

Value(part, sig, k, gain) ==
    [part |-> part, sig |-> sig, k |-> k, neg |-> FALSE, gain |-> gain]

\* sample k of signal sig, times gain
Sample(sig, k, gain) == Value("x", sig, k, gain)

\* real ("re") or imaginary ("im") part of bin k of the spectrum of sig
Bin(part, sig, k) == Value(part, sig, k, 1)

ZeroValue == Value("zero", 0, 0, 1)
JunkValue == Value("junk", 0, 0, 1)
OtherValue == Value("other", 0, 0, 1)

\* -v
Negate(v) ==
    IF v.part \in {"zero", "junk", "other"} THEN v ELSE [v EXCEPT !.neg = ~@]

\* v * scale, scale being 2.0f / n
Scaled(v, n) ==
    IF v.part = "zero" THEN v
    ELSE IF v.part = "x" /\ v.gain = n \div 2 /\ ~v.neg THEN Sample(v.sig, v.k, 1)
    ELSE OtherValue

\* n samples of signal sig
Signal(sig, n) == [i \in 1 .. n |-> Sample(sig, i - 1, 1)]

\* the spectrum of sig as rdft packs it: a[0] = R[0], a[1] = R[n/2],
\* a[2k] = R[k], a[2k+1] = I[k] for 0 < k < n/2
Packed(sig, n) ==
    [j \in 1 .. n |->
        IF j = 1 THEN Bin("re", sig, 0)
        ELSE IF j = 2 THEN Bin("re", sig, n \div 2)
        ELSE IF j % 2 = 1 THEN Bin("re", sig, (j - 1) \div 2)
        ELSE Bin("im", sig, (j - 2) \div 2)]

\* rdft(n, isgn, a) of the transform library: forward (isgn = 1) it turns
\* n samples into their packed spectrum, inverse (isgn = -1) it turns a
\* packed spectrum into n / 2 times the samples
rdft(n, isgn, a) ==
    IF isgn = 1
    THEN IF \E sig \in Signals : a = Signal(sig, n)
         THEN Packed(CHOOSE sig \in Signals : a = Signal(sig, n), n)
         ELSE [i \in 1 .. n |-> OtherValue]
    ELSE IF \E sig \in Signals : a = Packed(sig, n)
         THEN LET sig == CHOOSE g \in Signals : a = Packed(g, n)
              IN  [i \in 1 .. n |-> Sample(sig, i - 1, n \div 2)]
         ELSE [i \in 1 .. n |-> OtherValue]

\* the context pointer and the struct behind it
NullContext == [null |-> TRUE, fft_size |-> 0, initialized |-> 0]
Context(size, init) == [null |-> FALSE, fft_size |-> size, initialized |-> init]

pico_fft_is_valid(context) == ~context.null /\ context.initialized # 0

\* the first loop of pico_fft_forward (c:106-109): pass i writes real[i],
\* then imag[i], and reads the arrays nowhere, so each element is left as
\* its last write left it
unpack_bins(mem, work, n, real, imag) ==
    [b \in DOMAIN mem |->
        [j \in 1 .. Len(mem[b]) |->
            IF j - 1 \in 1 .. (n \div 2 - 1)
            THEN IF b = imag THEN work[2 * (j - 1) + 2]
                 ELSE IF b = real THEN work[2 * (j - 1) + 1]
                 ELSE mem[b][j]
            ELSE mem[b][j]]]

\* the second loop of pico_fft_forward (c:115-118): pass i writes real[i]
\* from real[n-i], then imag[i] from imag[n-i]; it reads indices below n/2
\* and writes indices above n/2 only
mirror_bins(mem, n, real, imag) ==
    [b \in DOMAIN mem |->
        [j \in 1 .. Len(mem[b]) |->
            IF j - 1 \in (n \div 2 + 1) .. (n - 1)
            THEN IF b = imag THEN Negate(mem[imag][n - (j - 1) + 1])
                 ELSE IF b = real THEN mem[real][n - (j - 1) + 1]
                 ELSE mem[b][j]
            ELSE mem[b][j]]]

\* the writes of pico_fft_forward, c:94-118, in program order: real and
\* imag are array numbers and may be the same
forward_writes(mem, n, real, imag) ==
    LET work  == rdft(n, 1, mem[real])
        dc    == [[mem EXCEPT ![real][1] = work[1]] EXCEPT ![imag][1] = ZeroValue]
        bins  == unpack_bins(dc, work, n, real, imag)
        nyq   == [[bins EXCEPT ![real][n \div 2 + 1] = work[2]]
                      EXCEPT ![imag][n \div 2 + 1] = ZeroValue]
    IN  mirror_bins(nyq, n, real, imag)

\* the packing of pico_fft_inverse with real[0] and real[n/2] exchanged
inverse_pack_swapped(mem, n, real, imag) ==
    [j \in 1 .. n |->
        IF j = 1 THEN mem[real][n \div 2 + 1]
        ELSE IF j = 2 THEN mem[real][1]
        ELSE IF j % 2 = 1 THEN mem[real][(j - 1) \div 2 + 1]
        ELSE mem[imag][(j - 2) \div 2 + 1]]

\* the packing of pico_fft_inverse, c:141-147
inverse_pack(mem, n, real, imag) ==
    [j \in 1 .. n |->
        IF j = 1 THEN mem[real][1]
        ELSE IF j = 2 THEN mem[real][n \div 2 + 1]
        ELSE IF j % 2 = 1 THEN mem[real][(j - 1) \div 2 + 1]
        ELSE mem[imag][(j - 2) \div 2 + 1]]

\* the writes of pico_fft_inverse, c:141-156
inverse_writes(mem, n, real, imag) ==
    LET work == rdft(n, 0 - 1, inverse_pack(mem, n, real, imag))
    IN  [mem EXCEPT ![real] = [i \in 1 .. n |-> Scaled(work[i], n)]]

NoBuffer == 0

NoFftOp == [op |-> "none", null |-> FALSE, size |-> 0, real |-> NoBuffer,
            imag |-> NoBuffer, alloc_ok |-> TRUE, ret |-> "PICO_OK"]

FftInit ==
    /\ fft_context = NullContext
    /\ fft_mem = [b \in 1 .. 2 |-> <<>>]
    /\ fft_allocs = 0
    /\ fft_op = NoFftOp

FftCall(name) == [NoFftOp EXCEPT !.op = name]

\* pico_fft_initialize(mm, fft_size, context) that sets initialized to 1 or
\* not at all: here the size test comes after the allocation
pico_fft_initialize_late(null_context, fft_size, alloc_ok) ==
    /\ fft_op' = [FftCall("fft_initialize") EXCEPT
           !.null = null_context, !.size = fft_size, !.alloc_ok = alloc_ok,
           !.ret = IF null_context THEN "PICO_ERR_NULLPTR_ACCESS"
                   ELSE IF ~alloc_ok THEN "PICO_EXC_OUT_OF_MEM"
                   ELSE IF fft_size # PICO_FFT_SIZE_256
                           /\ fft_size # PICO_FFT_SIZE_512 THEN "PICO_ERR_OTHER"
                   ELSE "PICO_OK"]
    /\ IF ~null_context /\ alloc_ok
       THEN /\ fft_context' = Context(fft_size, 1)
            /\ fft_allocs' = fft_allocs + 1
       ELSE UNCHANGED <<fft_context, fft_allocs>>
    /\ UNCHANGED fft_mem

\* pico_fft_initialize(mm, fft_size, context).  null_context: the argument
\* context is NULL; alloc_ok: picoos_allocate returns memory
pico_fft_initialize(null_context, fft_size, alloc_ok) ==
    /\ fft_op' = [FftCall("fft_initialize") EXCEPT
           !.null = null_context, !.size = fft_size, !.alloc_ok = alloc_ok,
           !.ret = IF null_context THEN "PICO_ERR_NULLPTR_ACCESS"
                   ELSE IF fft_size # PICO_FFT_SIZE_256
                           /\ fft_size # PICO_FFT_SIZE_512 THEN "PICO_ERR_OTHER"
                   ELSE IF ~alloc_ok THEN "PICO_EXC_OUT_OF_MEM"
                   ELSE "PICO_OK"]
    /\ IF /\ ~null_context
          /\ fft_size \in {PICO_FFT_SIZE_256, PICO_FFT_SIZE_512}
          /\ alloc_ok
       THEN /\ fft_context' = Context(fft_size, 1)
            /\ fft_allocs' = fft_allocs + 1
       ELSE UNCHANGED <<fft_context, fft_allocs>>
    /\ UNCHANGED fft_mem

\* pico_fft_deallocate(mm, &context): picoos_deallocate frees the struct
\* and writes NULL to the caller's pointer
pico_fft_deallocate ==
    /\ fft_op' = FftCall("fft_deallocate")
    /\ fft_context' = NullContext
    /\ UNCHANGED <<fft_mem, fft_allocs>>

\* pico_fft_forward(context, real, imag).  real = NoBuffer: real is NULL;
\* alloc_ok: the allocation of work succeeds
pico_fft_forward(real, imag, alloc_ok) ==
    LET valid == pico_fft_is_valid(fft_context) /\ real # NoBuffer
    IN  /\ fft_op' = [FftCall("fft_forward") EXCEPT
               !.real = real, !.imag = imag, !.alloc_ok = alloc_ok,
               !.ret = IF ~valid THEN "PICO_ERR_NULLPTR_ACCESS"
                       ELSE IF ~alloc_ok THEN "PICO_EXC_OUT_OF_MEM"
                       ELSE "PICO_OK"]
        /\ fft_mem' = IF valid /\ alloc_ok
                      THEN forward_writes(fft_mem, fft_context.fft_size, real, imag)
                      ELSE fft_mem
        /\ UNCHANGED <<fft_context, fft_allocs>>

\* pico_fft_inverse(context, real, imag)
pico_fft_inverse(real, imag, alloc_ok) ==
    LET valid == pico_fft_is_valid(fft_context) /\ real # NoBuffer
    IN  /\ fft_op' = [FftCall("fft_inverse") EXCEPT
               !.real = real, !.imag = imag, !.alloc_ok = alloc_ok,
               !.ret = IF ~valid THEN "PICO_ERR_NULLPTR_ACCESS"
                       ELSE IF ~alloc_ok THEN "PICO_EXC_OUT_OF_MEM"
                       ELSE "PICO_OK"]
        /\ fft_mem' = IF valid /\ alloc_ok
                      THEN inverse_writes(fft_mem, fft_context.fft_size, real, imag)
                      ELSE fft_mem
        /\ UNCHANGED <<fft_context, fft_allocs>>

-----------------------------------------------------------------------------
(* The threads that call the cache *)

Threads == 1 .. 2

NoLock == {}

IdleThread == [pc |-> "idle", op |-> "none", hash |-> 0, tree |-> 0, pdf |-> NoPdf,
               index |-> NoSlot, offset |-> 0, tmp |-> 0, out |-> NoPdf,
               ret |-> 0, stamped |-> FALSE]

ThreadsInit ==
    /\ threads = [t \in Threads |-> IdleThread]
    /\ lock = NoLock
    /\ locking = FALSE

-----------------------------------------------------------------------------
(* Initial state: the cache as picodt_cache_initialize returns it *)

ZeroStats == [hits |-> 0, misses |-> 0, collisions |-> 0, evictions |-> 0]

\* the round of a disable and a re-enable: "none" outside one, "disabled" from
\* picodt_cache_set_enabled(cache, 0) on an enabled cache, "reenabled" from
\* the next enabling call until the enabled cache serves a lookup or an
\* insert; refused: the key of the last insert called while disabled
NoOutage == [state |-> "none", refused |-> NoKey]

Switched(p, was, e) ==
    IF was # 0 /\ e = 0 THEN [state |-> "disabled", refused |-> NoKey]
    ELSE IF was = 0 /\ e # 0 THEN [p EXCEPT !.state = "reenabled"]
    ELSE p

NoOp == [op |-> "none", hash |-> 0, tree |-> 0, pdf |-> NoPdf, done |-> FALSE,
         ret |-> 0, out |-> NoPdf, slot |-> NoSlot, evicted |-> FALSE,
         prestamps |-> <<>>, follows |-> NoPdf, pre_enabled |-> 0,
         null |-> FALSE, resumes |-> NoOutage]

CacheInit ==
    /\ entries = NoEntries
    /\ stats = ZeroStats
    /\ enabled = 1
    /\ clock = 0
    /\ ticks = 0
    /\ stamp = NoStamps
    /\ cop = NoOp
    /\ firstIns = NoKey
    /\ insKeys = {}
    /\ insCalls = {}
    /\ outage = NoOutage
    /\ lastInsTick = -1
    /\ lastReset = "init"

Init == CacheInit /\ QualityInit /\ NoiseInit /\ FixedInit /\ FftInit /\ ThreadsInit
        /\ last = "none"

-----------------------------------------------------------------------------
(* Public API of the cache: one action per call *)

CallRecord(name, context_hash, tree_id, pdf_index) ==
    [NoOp EXCEPT !.op = name, !.hash = context_hash, !.tree = tree_id,
                 !.pdf = pdf_index, !.pre_enabled = enabled]

\* picodtcache.c:66-98 (allocation succeeds): a fresh, enabled, empty cache
picodt_cache_initialize ==
    /\ entries' = NoEntries
    /\ stats' = ZeroStats
    /\ enabled' = 1
    /\ clock' = 0
    /\ ticks' = 0
    /\ stamp' = NoStamps
    /\ cop' = CallRecord("initialize", 0, 0, NoPdf)
    /\ firstIns' = NoKey
    /\ insKeys' = {}
    /\ insCalls' = {}
    /\ outage' = NoOutage
    /\ lastInsTick' = -1
    /\ lastReset' = "init"

\* picodt_cache_clear without the reset of the clock (c:127)
picodt_cache_clear_keepclock ==
    /\ entries' = [i \in DOMAIN entries |->
                     [entries[i] EXCEPT !.valid = FALSE, !.access_count = 0]]
    /\ stats' = ZeroStats
    /\ UNCHANGED <<clock, enabled>>
    /\ ticks' = 0
    /\ stamp' = NoStamps
    /\ cop' = CallRecord("clear", 0, 0, NoPdf)
    /\ firstIns' = NoKey
    /\ insKeys' = {}
    /\ insCalls' = {}
    /\ outage' = NoOutage
    /\ lastInsTick' = -1
    /\ lastReset' = "clear"

\* picodtcache.c:113-128
picodt_cache_clear ==
    /\ entries' = [i \in DOMAIN entries |->
                     [entries[i] EXCEPT !.valid = FALSE, !.access_count = 0]]
    /\ stats' = ZeroStats
    /\ clock' = 0
    /\ UNCHANGED enabled
    /\ ticks' = 0
    /\ stamp' = NoStamps
    /\ cop' = CallRecord("clear", 0, 0, NoPdf)
    /\ firstIns' = NoKey
    /\ insKeys' = {}
    /\ insCalls' = {}
    /\ outage' = NoOutage
    /\ lastInsTick' = -1
    /\ lastReset' = "clear"

\* picodt_cache_set_enabled emptying the cache when it disables it
picodt_cache_set_enabled_flush(e) ==
    /\ enabled' = e
    /\ entries' = IF e = 0
                  THEN [i \in DOMAIN entries |-> [entries[i] EXCEPT !.valid = FALSE]]
                  ELSE entries
    /\ cop' = CallRecord("set_enabled", 0, 0, NoPdf)
    /\ outage' = Switched(outage, enabled, e)
    /\ UNCHANGED <<stats, clock, ticks, stamp, firstIns, insKeys,
                   insCalls, lastInsTick, lastReset>>

\* picodtcache.h:221-226
picodt_cache_set_enabled(e) ==
    /\ enabled' = e
    /\ cop' = CallRecord("set_enabled", 0, 0, NoPdf)
    /\ outage' = Switched(outage, enabled, e)
    /\ UNCHANGED <<entries, stats, clock, ticks, stamp, firstIns, insKeys,
                   insCalls, lastInsTick, lastReset>>

\* picodtcache.c:133-175 (pdf_index is a non-null output)
picodt_cache_lookup(context_hash, tree_id) ==
    LET index == get_cache_index(context_hash)
        found == match_offsets(entries, context_hash, tree_id)
        call  == [CallRecord("lookup", context_hash, tree_id, NoPdf) EXCEPT
                    !.follows = IF /\ cop.op = "insert"
                                   /\ cop.done
                                   /\ cop.hash = context_hash
                                   /\ cop.tree = tree_id
                                THEN cop.pdf ELSE NoPdf]
    IN
    IF ~picodt_cache_is_enabled
    THEN /\ cop' = call
         /\ UNCHANGED <<entries, stats, enabled, clock, ticks, stamp, firstIns,
                        insKeys, insCalls, outage, lastInsTick, lastReset>>
    ELSE IF found # {}
    THEN LET i   == first_match(found)
             idx == probe_slot(index, i)
         IN
         /\ entries' = [entries EXCEPT ![idx].access_count = clock]
         /\ clock' = (clock + 1) % ClockModulus
         /\ stats' = [stats EXCEPT
                        !.hits = @ + 1,
                        !.collisions = IF i > 0 THEN @ + 1 ELSE @]
         /\ ticks' = ticks + 1
         /\ stamp' = (idx :> ticks) @@ stamp
         /\ cop' = [call EXCEPT !.resumes = outage, !.done = TRUE, !.ret = 1,
                                !.out = Entry(entries, idx).pdf_index, !.slot = idx]
         /\ outage' = NoOutage
         /\ UNCHANGED <<enabled, firstIns, insKeys, insCalls, lastInsTick,
                        lastReset>>
    ELSE /\ stats' = [stats EXCEPT !.misses = @ + 1]
         /\ cop' = [call EXCEPT !.resumes = outage, !.done = TRUE]
         /\ outage' = NoOutage
         /\ UNCHANGED <<entries, enabled, clock, ticks, stamp, firstIns, insKeys,
                        insCalls, lastInsTick, lastReset>>

\* picodt_cache_insert counting an eviction whenever the primary slot is
\* taken, without the test of the slot it writes (c:206)
picodt_cache_insert_countall(context_hash, tree_id, pdf_index) ==
    LET index == get_cache_index(context_hash)
        call  == CallRecord("insert", context_hash, tree_id, pdf_index)
    IN
    IF ~picodt_cache_is_enabled
    THEN /\ cop' = call
         /\ outage' = [outage EXCEPT !.refused = <<context_hash, tree_id>>]
         /\ UNCHANGED <<entries, stats, enabled, clock, ticks, stamp, firstIns,
                        insKeys, insCalls, lastInsTick, lastReset>>
    ELSE LET idx   == IF ~Entry(entries, index).valid THEN index
                      ELSE find_lru_entry(entries, index)
             evict == Entry(entries, index).valid
         IN
         /\ entries' = (idx :> [context_hash |-> context_hash,
                                pdf_index |-> pdf_index, tree_id |-> tree_id,
                                valid |-> TRUE, access_count |-> clock])
                        @@ entries
         /\ clock' = (clock + 1) % ClockModulus
         /\ stats' = [stats EXCEPT
                        !.evictions = IF evict THEN @ + 1 ELSE @]
         /\ ticks' = ticks + 1
         /\ stamp' = (idx :> ticks) @@ stamp
         /\ cop' = [call EXCEPT
                      !.resumes = outage, !.done = TRUE, !.slot = idx, !.evicted = evict,
                      !.prestamps = [i \in 1 .. ProbeWindow |->
                                       Stamp(probe_slot(index, i - 1))]]
         /\ firstIns' = IF firstIns = NoKey THEN <<context_hash, tree_id>>
                        ELSE firstIns
         /\ insKeys' = insKeys \cup {<<context_hash, tree_id>>}
         /\ insCalls' = insCalls \cup {<<context_hash, tree_id, pdf_index>>}
         /\ outage' = NoOutage
         /\ lastInsTick' = ticks
         /\ UNCHANGED <<enabled, lastReset>>

\* picodtcache.c:180-214
picodt_cache_insert(context_hash, tree_id, pdf_index) ==
    LET index == get_cache_index(context_hash)
        call  == CallRecord("insert", context_hash, tree_id, pdf_index)
    IN
    IF ~picodt_cache_is_enabled
    THEN /\ cop' = call
         /\ outage' = [outage EXCEPT !.refused = <<context_hash, tree_id>>]
         /\ UNCHANGED <<entries, stats, enabled, clock, ticks, stamp, firstIns,
                        insKeys, insCalls, lastInsTick, lastReset>>
    ELSE LET idx   == IF ~Entry(entries, index).valid THEN index
                      ELSE find_lru_entry(entries, index)
             evict == Entry(entries, index).valid /\ Entry(entries, idx).valid
         IN
         /\ entries' = (idx :> [context_hash |-> context_hash,
                                pdf_index |-> pdf_index, tree_id |-> tree_id,
                                valid |-> TRUE, access_count |-> clock])
                        @@ entries
         /\ clock' = (clock + 1) % ClockModulus
         /\ stats' = [stats EXCEPT
                        !.evictions = IF evict THEN @ + 1 ELSE @]
         /\ ticks' = ticks + 1
         /\ stamp' = (idx :> ticks) @@ stamp
         /\ cop' = [call EXCEPT
                      !.resumes = outage, !.done = TRUE, !.slot = idx, !.evicted = evict,
                      !.prestamps = [i \in 1 .. ProbeWindow |->
                                       Stamp(probe_slot(index, i - 1))]]
         /\ firstIns' = IF firstIns = NoKey THEN <<context_hash, tree_id>>
                        ELSE firstIns
         /\ insKeys' = insKeys \cup {<<context_hash, tree_id>>}
         /\ insCalls' = insCalls \cup {<<context_hash, tree_id, pdf_index>>}
         /\ outage' = NoOutage
         /\ lastInsTick' = ticks
         /\ UNCHANGED <<enabled, lastReset>>

\* picodtcache.c:137-139 with cache = NULL: picodt_cache_is_enabled(NULL) is
\* 0, lookup returns 0 and no object is touched
picodt_cache_lookup_null(context_hash, tree_id) ==
    /\ cop' = [CallRecord("lookup", context_hash, tree_id, NoPdf) EXCEPT
                 !.null = TRUE]
    /\ UNCHANGED <<entries, stats, enabled, clock, ticks, stamp, firstIns,
                   insKeys, insCalls, outage, lastInsTick, lastReset>>

\* picodtcache.c:184-186 with cache = NULL: insert returns at once
picodt_cache_insert_null(context_hash, tree_id, pdf_index) ==
    /\ cop' = [CallRecord("insert", context_hash, tree_id, pdf_index) EXCEPT
                 !.null = TRUE]
    /\ UNCHANGED <<entries, stats, enabled, clock, ticks, stamp, firstIns,
                   insKeys, insCalls, outage, lastInsTick, lastReset>>

-----------------------------------------------------------------------------
(* The calls of the cache by two threads, one step per field write, per    *)
(* read and per write of the clock, per scan of the probe window and per   *)
(* statistics counter.  A thread's locals: index (the slot), offset (the   *)
(* probe offset of a hit), tmp (the value read from clock), out (what is  *)
(* stored through pdf_index), ret.  stamped: the call has written an       *)
(* access_count.                                                           *)

\* the rest of the state a step of a thread leaves alone
ThreadFrame ==
    /\ last' = "cache"
    /\ UNCHANGED <<ticks, stamp, cop, firstIns, insKeys, insCalls, outage,
                   lastInsTick,
                   lastReset, enabled, locking, qvars, nvars, dvars, tvars>>

At(t, pc) == threads[t].pc = pc

Goto(t, pc) == threads' = [threads EXCEPT ![t].pc = pc]

\* entries with field-wise replacement of the entry at idx
WriteEntry(idx, entry) == entries' = (idx :> entry) @@ entries

\* a thread enters picodt_cache_insert or picodt_cache_lookup, taking the
\* common lock first where the callers use it
thread_call(t, op, context_hash, tree_id, pdf_index) ==
    /\ At(t, "idle")
    /\ locking => lock = NoLock
    /\ lock' = IF locking THEN {t} ELSE lock
    /\ threads' = [threads EXCEPT ![t] =
           [IdleThread EXCEPT !.pc = op, !.op = op, !.hash = context_hash,
                              !.tree = tree_id, !.pdf = pdf_index]]
    /\ UNCHANGED <<entries, stats, clock>>
    /\ ThreadFrame

\* c:184-196: the enabled test and the test of the primary slot
insert_test(t) ==
    /\ At(t, "insert")
    /\ LET index == get_cache_index(threads[t].hash)
       IN  threads' = [threads EXCEPT
               ![t].index = index,
               ![t].pc = IF ~picodt_cache_is_enabled THEN "return"
                         ELSE IF ~Entry(entries, index).valid THEN "write_hash"
                         ELSE "find_lru"]
    /\ UNCHANGED <<entries, stats, clock, lock>>
    /\ ThreadFrame

\* c:201: index = find_lru_entry(cache, index)
insert_find_lru(t) ==
    /\ At(t, "find_lru")
    /\ threads' = [threads EXCEPT
           ![t].index = find_lru_entry(entries, threads[t].index),
           ![t].pc = "count_eviction"]
    /\ UNCHANGED <<entries, stats, clock, lock>>
    /\ ThreadFrame

\* c:203-205
insert_count_eviction(t) ==
    /\ At(t, "count_eviction")
    /\ stats' = IF Entry(entries, threads[t].index).valid
                THEN [stats EXCEPT !.evictions = @ + 1] ELSE stats
    /\ Goto(t, "write_hash")
    /\ UNCHANGED <<entries, clock, lock>>
    /\ ThreadFrame

\* c:193, c:208
insert_write_hash(t) ==
    /\ At(t, "write_hash")
    /\ WriteEntry(threads[t].index, [Entry(entries, threads[t].index) EXCEPT
                                         !.context_hash = threads[t].hash])
    /\ Goto(t, "write_pdf")
    /\ UNCHANGED <<stats, clock, lock>>
    /\ ThreadFrame

\* c:194, c:209
insert_write_pdf(t) ==
    /\ At(t, "write_pdf")
    /\ WriteEntry(threads[t].index, [Entry(entries, threads[t].index) EXCEPT
                                         !.pdf_index = threads[t].pdf])
    /\ Goto(t, "write_tree")
    /\ UNCHANGED <<stats, clock, lock>>
    /\ ThreadFrame

\* c:195, c:210
insert_write_tree(t) ==
    /\ At(t, "write_tree")
    /\ WriteEntry(threads[t].index, [Entry(entries, threads[t].index) EXCEPT
                                         !.tree_id = threads[t].tree])
    /\ Goto(t, "write_valid")
    /\ UNCHANGED <<stats, clock, lock>>
    /\ ThreadFrame

\* c:196, c:211
insert_write_valid(t) ==
    /\ At(t, "write_valid")
    /\ WriteEntry(threads[t].index, [Entry(entries, threads[t].index) EXCEPT
                                         !.valid = TRUE])
    /\ Goto(t, "read_clock")
    /\ UNCHANGED <<stats, clock, lock>>
    /\ ThreadFrame

\* c:141-170: the enabled test and the scan of the probe window
lookup_probe(t) ==
    /\ At(t, "lookup")
    /\ LET index   == get_cache_index(threads[t].hash)
           offsets == match_offsets(entries, threads[t].hash, threads[t].tree)
       IN  threads' = [threads EXCEPT ![t] =
               IF ~picodt_cache_is_enabled THEN [@ EXCEPT !.pc = "return"]
               ELSE IF offsets = {} THEN [@ EXCEPT !.pc = "count_miss"]
               ELSE [@ EXCEPT !.pc = "read_pdf",
                              !.offset = first_match(offsets),
                              !.index = probe_slot(index, first_match(offsets))]]
    /\ UNCHANGED <<entries, stats, clock, lock>>
    /\ ThreadFrame

\* c:149, c:164: *pdf_index = cache->entries[idx].pdf_index
lookup_read_pdf(t) ==
    /\ At(t, "read_pdf")
    /\ threads' = [threads EXCEPT
           ![t].out = Entry(entries, threads[t].index).pdf_index,
           ![t].pc = "read_clock"]
    /\ UNCHANGED <<entries, stats, clock, lock>>
    /\ ThreadFrame

\* cache->clock++ of c:150, c:165, c:197, c:213: the read
thread_read_clock(t) ==
    /\ At(t, "read_clock")
    /\ threads' = [threads EXCEPT ![t].tmp = clock, ![t].pc = "write_clock"]
    /\ UNCHANGED <<entries, stats, clock, lock>>
    /\ ThreadFrame

\* the clock written back as read
thread_write_clock_same(t) ==
    /\ At(t, "write_clock")
    /\ clock' = threads[t].tmp
    /\ Goto(t, "write_access")
    /\ UNCHANGED <<entries, stats, lock>>
    /\ ThreadFrame

\* cache->clock++ of c:150, c:165, c:197, c:213: the write
thread_write_clock(t) ==
    /\ At(t, "write_clock")
    /\ clock' = (threads[t].tmp + 1) % ClockModulus
    /\ Goto(t, "write_access")
    /\ UNCHANGED <<entries, stats, lock>>
    /\ ThreadFrame

\* c:150, c:165, c:197, c:213: access_count = (the value read)
thread_write_access(t) ==
    /\ At(t, "write_access")
    /\ WriteEntry(threads[t].index, [Entry(entries, threads[t].index) EXCEPT
                                         !.access_count = threads[t].tmp])
    /\ threads' = [threads EXCEPT
           ![t].stamped = TRUE,
           ![t].pc = IF threads[t].op = "lookup" THEN "count_hit" ELSE "return"]
    /\ UNCHANGED <<stats, clock, lock>>
    /\ ThreadFrame

\* c:151, c:166
lookup_count_hit(t) ==
    /\ At(t, "count_hit")
    /\ stats' = [stats EXCEPT !.hits = @ + 1]
    /\ threads' = [threads EXCEPT
           ![t].ret = 1,
           ![t].pc = IF threads[t].offset > 0 THEN "count_collision" ELSE "return"]
    /\ UNCHANGED <<entries, clock, lock>>
    /\ ThreadFrame

\* c:167
lookup_count_collision(t) ==
    /\ At(t, "count_collision")
    /\ stats' = [stats EXCEPT !.collisions = @ + 1]
    /\ Goto(t, "return")
    /\ UNCHANGED <<entries, clock, lock>>
    /\ ThreadFrame

\* c:173
lookup_count_miss(t) ==
    /\ At(t, "count_miss")
    /\ stats' = [stats EXCEPT !.misses = @ + 1]
    /\ Goto(t, "return")
    /\ UNCHANGED <<entries, clock, lock>>
    /\ ThreadFrame

\* the call returns, and the thread gives the lock back where it took it
thread_return(t) ==
    /\ At(t, "return")
    /\ Goto(t, "done")
    /\ lock' = IF locking THEN NoLock ELSE lock
    /\ UNCHANGED <<entries, stats, clock>>
    /\ ThreadFrame

-----------------------------------------------------------------------------
(* What a call of one part of the library leaves alone *)

\* the quality variables the noise calls leave alone
qrest == <<voice_params, prosody_params, noise_filter, random_seed, initialized,
           qop, qprev>>

\* a call of the cache
CacheFrame == last' = "cache" /\ UNCHANGED <<qvars, nvars, dvars, tvars, mvars>>

\* a call of the parameter model
QualityFrame == last' = "quality" /\ UNCHANGED <<cvars, nvars, dvars, tvars, mvars>>

\* a call of the excitation generator that counts no statistics
NoiseFrame == last' = "noise" /\ UNCHANGED <<cvars, qvars, dvars, tvars, mvars>>

\* a call of the fixed-point arithmetic, which has no state of its own
FixedFrame ==
    last' = "fixed" /\ UNCHANGED <<cvars, qvars, nvars, hop, tvars, mvars>>

\* a call of a context hash function, which has no state either
HashFrame ==
    last' = "hash" /\ UNCHANGED <<cvars, qvars, nvars, fop, tvars, mvars>>

\* a call of the spectral transform
FftFrame == last' = "fft" /\ UNCHANGED <<cvars, qvars, nvars, dvars, mvars>>

\* a call of the excitation generator that may count statistics
NoiseStatsFrame == last' = "noise" /\ UNCHANGED <<cvars, qrest, dvars, tvars, mvars>>

-----------------------------------------------------------------------------
(* Specification of the cache under its general use *)

Within(maxTicks, maxMisses) == ticks < maxTicks /\ stats.misses < maxMisses

Initialize == picodt_cache_initialize /\ CacheFrame

Clear == picodt_cache_clear /\ CacheFrame

SetEnabled == \E e \in {0, 1} : picodt_cache_set_enabled(e) /\ CacheFrame

Lookup ==
    \E k \in Keys :
        /\ Within(MaxTicks, MaxMisses)
        /\ picodt_cache_lookup(k[1], k[2])
        /\ CacheFrame

Insert ==
    \E k \in Keys, p \in Pdfs :
        /\ Within(MaxTicks, MaxMisses + 1)
        /\ picodt_cache_insert(k[1], k[2], p)
        /\ CacheFrame

\* calls made with a null cache pointer
LookupNull ==
    \E k \in Keys : picodt_cache_lookup_null(k[1], k[2]) /\ CacheFrame

InsertNull ==
    \E k \in Keys : picodt_cache_insert_null(k[1], k[2], 0) /\ CacheFrame

Next ==
    Initialize \/ Clear \/ SetEnabled \/ Lookup \/ Insert \/ LookupNull
        \/ InsertNull

Spec == Init /\ [][Next]_vars

-----------------------------------------------------------------------------
(* Specification of the fill-then-probe use: a caller inserts keys that    *)
(* all share one primary index, each key once, and probes with lookups.    *)

\* five keys with primary index 254: one more than the probe window holds
EvictKeys == {<<254, 0>>, <<254, 1>>, <<510, 0>>, <<766, 0>>, <<1022, 2>>}

\* inserts explored by the fill
MaxFill == 5

\* lookups explored after a clear or initialize
MaxProbes == 2

FillInsert ==
    \E k \in EvictKeys :
        /\ k \notin insKeys
        /\ Cardinality(insKeys) < MaxFill
        /\ picodt_cache_insert(k[1], k[2], 0)
        /\ CacheFrame

ProbeLookup ==
    \E k \in EvictKeys :
        /\ stats.hits + stats.misses < MaxProbes
        /\ picodt_cache_lookup(k[1], k[2])
        /\ CacheFrame

NextEvict == FillInsert \/ ProbeLookup

SpecEvict == Init /\ [][NextEvict]_vars

-----------------------------------------------------------------------------
(* Specification of long runs: enough calls for the 8-bit clock to wrap.   *)
(* The caller works as the parameter-generation stage does: it inserts a   *)
(* key only when the key is not in the cache (after a lookup miss), so the *)
(* five keys of one probe window keep evicting each other.                 *)

\* clock ticks explored in a long run (the clock wraps at ClockModulus)
MaxTicksLru == 258

LongInsert ==
    \E k \in EvictKeys :
        /\ ticks < MaxTicksLru
        /\ match_offsets(entries, k[1], k[2]) = {}
        /\ picodt_cache_insert(k[1], k[2], 0)
        /\ CacheFrame

NextLru == LongInsert

SpecLru == Init /\ [][NextLru]_vars

-----------------------------------------------------------------------------
(* Specification of the hit-rate arithmetic over long runs.  A run starts  *)
(* where a caller stands after one insert of the key (254, 0) followed by  *)
(* n lookups of it, all hits: hits = n, one valid entry, clock (1 + n)     *)
(* modulo 256.  The values of n are the start of a run and the counts      *)
(* around floor(2^32 / 100) = 42949672.                                    *)

LongRunHits == {0, 1, 42949671, 42949672, 42949673}

\* lookup hits explored beyond each starting count
MaxRateHits == 2

\* lookup misses explored after the start or a clear
MaxRateMisses == 2

HitsExplored == UNION {n .. (n + MaxRateHits - 1) : n \in LongRunHits}

InitHitRate ==
    /\ \E n \in LongRunHits :
         /\ entries = (254 :> [context_hash |-> 254, pdf_index |-> 0, tree_id |-> 0,
                               valid |-> TRUE, access_count |-> n % ClockModulus])
         /\ stats = [ZeroStats EXCEPT !.hits = n]
         /\ clock = (1 + n) % ClockModulus
         /\ ticks = 1 + n
         /\ stamp = (254 :> n)
         /\ cop = IF n = 0
                  THEN [NoOp EXCEPT !.op = "insert", !.hash = 254, !.pdf = 0,
                                    !.done = TRUE, !.slot = 254,
                                    !.prestamps = <<0, 0, 0, 0>>, !.pre_enabled = 1]
                  ELSE [NoOp EXCEPT !.op = "lookup", !.hash = 254, !.done = TRUE,
                                    !.ret = 1, !.out = 0, !.slot = 254,
                                    !.pre_enabled = 1]
    /\ enabled = 1
    /\ firstIns = <<254, 0>>
    /\ insKeys = {<<254, 0>>}
    /\ insCalls = {<<254, 0, 0>>}
    /\ outage = NoOutage
    /\ lastInsTick = 0
    /\ lastReset = "init"
    /\ QualityInit
    /\ NoiseInit
    /\ FixedInit
    /\ FftInit
    /\ ThreadsInit
    /\ last = "cache"

RateLookup ==
    \E k \in Keys :
        /\ stats.hits \in HitsExplored
        /\ stats.misses < MaxRateMisses
        /\ picodt_cache_lookup(k[1], k[2])
        /\ CacheFrame

\* a key is inserted once after each start or clear (after its lookup missed)
RateInsert ==
    \E k \in Keys :
        /\ k \notin insKeys
        /\ picodt_cache_insert(k[1], k[2], 0)
        /\ CacheFrame

RateClear == picodt_cache_clear /\ CacheFrame

NextHitRate == RateLookup \/ RateInsert \/ RateClear

SpecHitRate == InitHitRate /\ [][NextHitRate]_vars

-----------------------------------------------------------------------------
(* Specification of the voice and prosody parameter model *)

VoiceRecord(pitch, speed, formant, mode) ==
    [pitch_scale |-> pitch, speed_scale |-> speed, formant_shift |-> formant,
     quality_mode |-> mode]

\* records offered to pico_set_voice_params: two with every field on a
\* bound, one per field just outside its bound, the 3.0 pitch of the
\* documentation, and a pitch that is not a number
VoiceInputs ==
    { VoiceRecord(50, 300, -50000, 2),
      VoiceRecord(200, 50, 50000, 0),
      VoiceRecord(300, 100, 0, 1),
      VoiceRecord(49, 100, 0, 1),
      VoiceRecord(100, 301, 0, 1),
      VoiceRecord(100, 100, -50001, 1),
      VoiceRecord(100, 100, 0, 3),
      VoiceRecord(NaN, 100, 0, 1) }

ProsodyRecord(emphasis, pause, boost) ==
    [emphasis_scale |-> emphasis, pause_scale |-> pause, question_boost |-> boost]

\* records offered to pico_set_prosody_params: in range, and out of range
\* on either side
ProsodyInputs ==
    { ProsodyRecord(150, 70, 77),
      ProsodyRecord(49, 201, 101),
      ProsodyRecord(NaN, 100, 0 - 1) }

\* values offered to pico_set_quality_mode (picoos_int8)
ModeInputs == {-1, 2, 3}

\* values offered to pico_apply_voice_profile: the seven profiles and one
\* value of the enum type that names none
ProfileInputs == 0 .. 7

QualityInitCall == pico_quality_init /\ QualityFrame

QualityCleanup == pico_quality_cleanup /\ QualityFrame

SetQualityMode ==
    \E m \in ModeInputs : pico_set_quality_mode(m) /\ QualityFrame

SetVoiceParams ==
    \/ \E v \in VoiceInputs : pico_set_voice_params(FALSE, v) /\ QualityFrame
    \/ pico_set_voice_params(TRUE, DefaultVoice) /\ QualityFrame

ResetVoiceParams == pico_reset_voice_params /\ QualityFrame

SetProsodyParams ==
    \/ \E r \in ProsodyInputs : pico_set_prosody_params(FALSE, r) /\ QualityFrame
    \/ pico_set_prosody_params(TRUE, DefaultProsody) /\ QualityFrame

ResetProsodyParams == pico_reset_prosody_params /\ QualityFrame

GetVoiceParams ==
    \E is_null \in BOOLEAN : pico_get_voice_params(is_null) /\ QualityFrame

GetProsodyParams ==
    \E is_null \in BOOLEAN : pico_get_prosody_params(is_null) /\ QualityFrame

ApplyVoiceProfile ==
    \E p \in ProfileInputs : pico_apply_voice_profile(p) /\ QualityFrame

NextQuality ==
    \/ QualityInitCall
    \/ QualityCleanup
    \/ SetQualityMode
    \/ SetVoiceParams
    \/ ResetVoiceParams
    \/ SetProsodyParams
    \/ ResetProsodyParams
    \/ ApplyVoiceProfile
    \/ GetVoiceParams
    \/ GetProsodyParams

SpecQuality == Init /\ [][NextQuality]_vars

-----------------------------------------------------------------------------
(* Specification of the validation of voice records: a caller validates    *)
(* records of its own, with the active set changing in between.            *)

\* records offered to pico_validate_voice_params: those offered to
\* pico_set_voice_params, one per upper bound just exceeded, a mode below
\* 0, and a speed and a formant shift that are not numbers
ValidateInputs ==
    VoiceInputs \cup
    { VoiceRecord(201, 100, 0, 1),
      VoiceRecord(100, 49, 0, 1),
      VoiceRecord(100, 100, 50001, 1),
      VoiceRecord(100, 100, 0, -1),
      VoiceRecord(100, NaN, 0, 1),
      VoiceRecord(100, 100, NaN, 1) }

\* picoqualityenhance.c:122-153 as a call; is_null: the params pointer is
\* NULL (c:124-126).  The function writes neither *params nor g_quality_ctx.
ValidateVoiceParams ==
    \E is_null \in BOOLEAN, params \in ValidateInputs :
        /\ qop' = [QualityCall("validate_voice_params") EXCEPT
                     !.null = is_null, !.voice = params,
                     !.ret = IF is_null THEN "PICO_ERR_NULLPTR_ACCESS"
                             ELSE pico_validate_voice_params(params)]
        /\ Remember
        /\ UNCHANGED <<voice_params, prosody_params, noise_filter, random_seed,
                       initialized, g_quality_stats>>
        /\ QualityFrame

NextValidate ==
    \/ ValidateVoiceParams
    \/ SetVoiceParams
    \/ ResetVoiceParams
    \/ QualityInitCall

SpecValidate == Init /\ [][NextValidate]_vars

-----------------------------------------------------------------------------
(* Callers of the excitation generator *)

\* white noise calls explored per run
MaxWhite == 3

\* shaped noise calls explored after the caller wrote the seed, after a
\* filter init and after a reset of the statistics
MaxShaped == 3

\* coefficient updates explored between two resets of the statistics
MaxUpdates == 1

\* seeds written by the caller: the 12345 of the example, both ends of the
\* 32-bit range, and 1196435762, whose next seed has bit 31 and bit 30 set
SeedInputs == {ExampleSeed, <<0, 0>>, <<65535, 65535>>, <<18256, 10546>>}

\* coefficient arrays (Q15) handed to init and update
CoeffInputs ==
    { <<16384, -8192, 4096, -2048, 1024, -512, 256, -128>>,
      <<32767, -32768, 1, -1, 32767, -32768, 1, -1>> }

\* orders handed to init: the two bounds, one inside, one beyond each bound
OrderInputs == {0, 1, 2, 8, 9}

StartRuns == \E s \in SeedInputs : start_runs(s) /\ NoiseFrame

WhiteNoise ==
    \E r \in 1 .. 2 :
        /\ Len(trace[r]) < MaxWhite
        /\ pico_generate_white_noise(r)
        /\ NoiseFrame

FilterInit ==
    \/ \E c \in CoeffInputs, n \in OrderInputs :
           pico_noise_filter_init(FALSE, c, n) /\ NoiseFrame
    \/ pico_noise_filter_init(TRUE, ZeroVector, 1) /\ NoiseFrame

ShapedNoise ==
    \/ /\ filter.ready
       /\ Len(trace[0]) < MaxShaped
       /\ Len(samples) < MaxShaped
       /\ g_quality_stats.noise_samples_generated < MaxShaped
       /\ pico_generate_shaped_noise(FALSE)
       /\ NoiseStatsFrame
    \/ pico_generate_shaped_noise(TRUE) /\ NoiseStatsFrame

FilterUpdate ==
    \/ \E c \in CoeffInputs :
           /\ filter.ready
           /\ g_quality_stats.filter_updates < MaxUpdates
           /\ pico_noise_filter_update(FALSE, c)
           /\ NoiseStatsFrame
    \/ /\ filter.ready
       /\ pico_noise_filter_update(TRUE, ZeroVector)
       /\ NoiseStatsFrame

-----------------------------------------------------------------------------
(* Specification of the life cycle of the quality context: init and        *)
(* cleanup among calls that change the parameters and the statistics.      *)

\* the caller switches between two profiles, one that changes the voice set
\* and one that changes the voice and the prosody set
LifecycleProfile ==
    \E p \in {PICO_VOICE_PROFILE_FEMALE, PICO_VOICE_PROFILE_SLOW} :
        pico_apply_voice_profile(p) /\ QualityFrame

\* the caller sets its filter up once, with order 3
LifecycleFilterInit ==
    \E c \in CoeffInputs :
        /\ ~filter.ready
        /\ pico_noise_filter_init(FALSE, c, 3)
        /\ NoiseFrame

NextLifecycle ==
    \/ QualityInitCall
    \/ QualityCleanup
    \/ LifecycleProfile
    \/ LifecycleFilterInit
    \/ ShapedNoise
    \/ FilterUpdate

SpecLifecycle == Init /\ [][NextLifecycle]_vars

-----------------------------------------------------------------------------
(* Specification of the white noise generator: two runs of calls, each on  *)
(* its own seed, started from one seed value, among calls that change the  *)
(* quality context, the caller's filter and the statistics.                *)

NextWhite ==
    \/ StartRuns
    \/ WhiteNoise
    \/ QualityInitCall
    \/ LifecycleFilterInit
    \/ FilterUpdate

SpecWhite == Init /\ [][NextWhite]_vars

-----------------------------------------------------------------------------
(* Specification of the shaped noise generator: a caller initialises its   *)
(* filter, draws samples from the seed 12345 of the example and updates    *)
(* the coefficients, in any order.                                         *)

NextShaped ==
    \/ FilterInit
    \/ ShapedNoise
    \/ FilterUpdate

SpecShaped == Init /\ [][NextShaped]_vars

-----------------------------------------------------------------------------
(* Specification of the filter taps: a caller writes its seeds, sets up a  *)
(* filter of order 2 with small coefficients or with none (all zero),      *)
(* replaces them, and draws shaped samples from seed[0] and white samples  *)
(* from seed[1].                                                           *)

\* coefficient arrays of two taps, and the all-zero array of
\* pico_quality_init
TapCoeffs ==
    { <<6, -17, 0, 0, 0, 0, 0, 0>>, <<3, 6, 0, 0, 0, 0, 0, 0>>, ZeroVector }

\* the caller writes 0 or the 12345 of the example to its seeds
TapStart ==
    \E s \in {<<0, 0>>, ExampleSeed} : start_runs(s) /\ NoiseFrame

\* white samples drawn from seed[1]
TapWhite ==
    /\ Len(trace[1]) < MaxWhite
    /\ pico_generate_white_noise(1)
    /\ NoiseFrame

TapInit ==
    \E c \in TapCoeffs : pico_noise_filter_init(FALSE, c, 2) /\ NoiseFrame

TapUpdate ==
    \E c \in TapCoeffs :
        /\ filter.ready
        /\ g_quality_stats.filter_updates < MaxUpdates
        /\ pico_noise_filter_update(FALSE, c)
        /\ NoiseStatsFrame

NextTaps ==
    \/ TapStart
    \/ TapInit
    \/ TapUpdate
    \/ ShapedNoise
    \/ TapWhite

SpecTaps == Init /\ [][NextTaps]_vars

-----------------------------------------------------------------------------
(* Specification of the fixed-point arithmetic: a caller holds two         *)
(* operands, Q15 values at and around the ends of the range or two vectors *)
(* of up to MaxDot elements, and calls the Q15 functions on them.          *)

Q15Inputs == {0 - 32768, 0 - 32767, 0 - 1, 0, 1, 100, 200, 16384, 32767}

DotInputs == {0 - 32768, 0 - 1, 3, 32767}

MaxDot == 3

Vectors(n) == [1 .. n -> DotInputs]

Operands ==
    {<<<<a>>, <<b>>>> : a \in Q15Inputs, b \in Q15Inputs}
        \cup UNION {Vectors(n) \X Vectors(n) : n \in 0 .. MaxDot}

InitQ15 ==
    /\ CacheInit
    /\ QualityInit
    /\ NoiseInit
    /\ \E o \in Operands : fop = [NoFop EXCEPT !.a = o[1], !.b = o[2]]
    /\ hop = NoHop
    /\ FftInit
    /\ ThreadsInit
    /\ last = "none"

FixedCall(name) == [NoFop EXCEPT !.op = name, !.a = fop.a, !.b = fop.b]

Q15AddSat ==
    /\ Len(fop.a) = 1
    /\ fop' = [FixedCall("q15_add_sat") EXCEPT
                   !.ret = pico_q15_add_sat(fop.a[1], fop.b[1])]
    /\ FixedFrame

Q15SubSat ==
    /\ Len(fop.a) = 1
    /\ fop' = [FixedCall("q15_sub_sat") EXCEPT
                   !.ret = pico_q15_sub_sat(fop.a[1], fop.b[1])]
    /\ FixedFrame

Q15Mult ==
    /\ Len(fop.a) = 1
    /\ fop' = [FixedCall("q15_mult") EXCEPT
                   !.ret = pico_q15_mult(fop.a[1], fop.b[1])]
    /\ FixedFrame

Q15DotProduct ==
    \E outcome \in pico_q15_dot_product(fop.a, fop.b) :
        /\ fop' = [FixedCall("q15_dot_product") EXCEPT
                       !.ret = outcome.ret, !.trap = outcome.trap]
        /\ FixedFrame

Q15SqrtApprox ==
    /\ Len(fop.a) = 1
    /\ \E outcome \in pico_q15_sqrt_approx(fop.a[1]) :
           fop' = [FixedCall("q15_sqrt_approx") EXCEPT
                       !.ret = outcome.ret, !.trap = outcome.trap,
                       !.fault = outcome.fault, !.wide = outcome.wide]
    /\ FixedFrame

Q15RecipApprox ==
    /\ Len(fop.a) = 1
    /\ \E outcome \in pico_q15_recip_approx(fop.a[1]) :
           fop' = [FixedCall("q15_recip_approx") EXCEPT
                       !.ret = outcome.ret, !.trap = outcome.trap,
                       !.fault = outcome.fault, !.wide = outcome.wide]
    /\ FixedFrame

NextQ15 ==
    \/ Q15AddSat
    \/ Q15SubSat
    \/ Q15Mult
    \/ Q15DotProduct
    \/ Q15SqrtApprox
    \/ Q15RecipApprox

SpecQ15 == InitQ15 /\ [][NextQ15]_vars

-----------------------------------------------------------------------------
(* Specification of the context hashes: a caller holds up to MaxFeatures   *)
(* feature bytes and hashes them with the two functions.                   *)

\* feature bytes: both ends of the range, the top bit alone, and two values
\* with several bits set
FeatureInputs == {0, 1, 128, 151, 255}

\* features handed to picodt_compute_extended_hash
MaxFeatures == 5

InitHash ==
    /\ CacheInit
    /\ QualityInit
    /\ NoiseInit
    /\ fop = NoFop
    /\ \E n \in 0 .. MaxFeatures :
           \E f \in [1 .. n -> FeatureInputs] : hop = [NoHop EXCEPT !.features = f]
    /\ FftInit
    /\ ThreadsInit
    /\ last = "none"

\* the five-argument hash, for a caller that holds at least five features
ContextHash ==
    /\ Len(hop.features) >= 5
    /\ hop' = [op |-> "compute_context_hash", features |-> hop.features,
               ret |-> picodt_compute_context_hash(
                           hop.features[1], hop.features[2], hop.features[3],
                           hop.features[4], hop.features[5])]
    /\ HashFrame

ExtendedHash ==
    /\ hop' = [op |-> "compute_extended_hash", features |-> hop.features,
               ret |-> picodt_compute_extended_hash(hop.features)]
    /\ HashFrame

NextHash == ContextHash \/ ExtendedHash

SpecHash == InitHash /\ [][NextHash]_vars

-----------------------------------------------------------------------------
(* Specification of the spectral transform: a caller creates and frees     *)
(* contexts, writes a signal to its first array and calls the forward and  *)
(* the inverse transform on its two arrays, or on one of them twice.       *)

MaxAllocs == 1

SizeInputs == {128, PICO_FFT_SIZE_256, PICO_FFT_SIZE_512}

FftInitialize ==
    \E null_context \in BOOLEAN, fft_size \in SizeInputs, alloc_ok \in BOOLEAN :
        /\ (~null_context /\ fft_size \in {PICO_FFT_SIZE_256, PICO_FFT_SIZE_512} /\ alloc_ok)
               => fft_allocs < MaxAllocs
        /\ pico_fft_initialize(null_context, fft_size, alloc_ok)
        /\ FftFrame

FftDeallocate ==
    /\ pico_fft_is_valid(fft_context)
    /\ pico_fft_deallocate
    /\ FftFrame

\* the caller points at a struct of its own that no initialize has filled
CallerContext ==
    /\ fft_context.null
    /\ fft_context' = Context(PICO_FFT_SIZE_256, 0)
    /\ fft_op' = FftCall("caller_context")
    /\ UNCHANGED <<fft_mem, fft_allocs>>
    /\ FftFrame

\* the length of the arrays a caller passes along with fft_context
ArrayLength ==
    IF pico_fft_is_valid(fft_context) THEN fft_context.fft_size
    ELSE PICO_FFT_SIZE_256

\* the caller writes a signal to array 1 and leaves array 2 unwritten
LoadSignal ==
    \E sig \in Signals :
        /\ fft_mem' = [b \in 1 .. 2 |->
                          IF b = 1 THEN Signal(sig, ArrayLength)
                          ELSE [i \in 1 .. ArrayLength |-> JunkValue]]
        /\ fft_op' = FftCall("load_signal")
        /\ UNCHANGED <<fft_context, fft_allocs>>
        /\ FftFrame

FftForward ==
    \E real \in 0 .. 2, imag \in 1 .. 2, alloc_ok \in BOOLEAN :
        /\ Len(fft_mem[1]) = ArrayLength
        /\ pico_fft_forward(real, imag, alloc_ok)
        /\ FftFrame

FftInverse ==
    \E real \in 0 .. 2, imag \in 1 .. 2, alloc_ok \in BOOLEAN :
        /\ Len(fft_mem[1]) = ArrayLength
        /\ pico_fft_inverse(real, imag, alloc_ok)
        /\ FftFrame

NextFft ==
    \/ FftInitialize
    \/ FftDeallocate
    \/ CallerContext
    \/ LoadSignal
    \/ FftForward
    \/ FftInverse

SpecFft == Init /\ [][NextFft]_vars

-----------------------------------------------------------------------------
(* Specification of two threads on one cache: after at most MaxPrefill     *)
(* inserts by one caller, each thread makes one call, insert or lookup, on *)
(* keys of one primary index, and one caller looks a key up afterwards;    *)
(* the threads either both take one common lock round their call or none   *)
(* does.                                                                   *)

MaxPrefill == 1

ThreadKeys == {<<254, 0>>, <<510, 0>>}

\* the pdf index thread t inserts
ThreadPdf(t) == t - 1

InitThreads ==
    /\ CacheInit
    /\ QualityInit
    /\ NoiseInit
    /\ FixedInit
    /\ FftInit
    /\ threads = [t \in Threads |-> IdleThread]
    /\ lock = NoLock
    /\ locking \in BOOLEAN
    /\ last = "none"

Prefill ==
    /\ \A t \in Threads : At(t, "idle")
    /\ ticks < MaxPrefill
    /\ \E k \in ThreadKeys : picodt_cache_insert(k[1], k[2], 0)
    /\ CacheFrame

\* one caller looks a key up after both threads have returned
LaterLookup ==
    /\ \A t \in Threads : At(t, "done")
    /\ cop.op # "lookup"
    /\ \E k \in ThreadKeys : picodt_cache_lookup(k[1], k[2])
    /\ CacheFrame

ThreadCall ==
    \E t \in Threads, op \in {"insert", "lookup"}, k \in ThreadKeys :
        thread_call(t, op, k[1], k[2], IF op = "insert" THEN ThreadPdf(t) ELSE NoPdf)

NextThreads ==
    \/ Prefill
    \/ ThreadCall
    \/ \E t \in Threads : insert_test(t)
    \/ \E t \in Threads : insert_find_lru(t)
    \/ \E t \in Threads : insert_count_eviction(t)
    \/ \E t \in Threads : insert_write_hash(t)
    \/ \E t \in Threads : insert_write_pdf(t)
    \/ \E t \in Threads : insert_write_tree(t)
    \/ \E t \in Threads : insert_write_valid(t)
    \/ \E t \in Threads : lookup_probe(t)
    \/ \E t \in Threads : lookup_read_pdf(t)
    \/ \E t \in Threads : thread_read_clock(t)
    \/ \E t \in Threads : thread_write_clock(t)
    \/ \E t \in Threads : thread_write_access(t)
    \/ \E t \in Threads : lookup_count_hit(t)
    \/ \E t \in Threads : lookup_count_collision(t)
    \/ \E t \in Threads : lookup_count_miss(t)
    \/ \E t \in Threads : thread_return(t)
    \/ LaterLookup

SpecThreads == InitThreads /\ [][NextThreads]_vars

-----------------------------------------------------------------------------
(* Specification of insert and lookup on a probe window in long use: the   *)
(* cache has seen TieStart calls since its last reset, and each of the     *)
(* slots 254, 255, 0, 1 is either still empty or holds the key of its own  *)
(* primary index, stamped last in the 256 calls of its turn (slot 254 in   *)
(* the first 256, slot 255 in the next, ...) at a clock value of           *)
(* StampInputs.                                                            *)

TieStart == 1024

MaxTieCalls == 3

StampInputs == {7, 255}

NoStampDrawn == 0 - 1

\* the key held by the slot at probe offset i of the window of index 254
WindowKey(i) == <<probe_slot(254, i) + PICO_DT_CACHE_SIZE, 0>>

\* the window the stamps drawn give (NoStampDrawn: the slot is empty)
WindowEntries(drawn) ==
    [s \in {probe_slot(254, i) : i \in {j \in 0 .. 3 : drawn[j + 1] # NoStampDrawn}} |->
        LET i == CHOOSE j \in 0 .. 3 : probe_slot(254, j) = s
        IN  [context_hash |-> WindowKey(i)[1], pdf_index |-> 0,
             tree_id |-> WindowKey(i)[2], valid |-> TRUE,
             access_count |-> drawn[i + 1]]]

WindowStamps(drawn) ==
    [s \in {probe_slot(254, i) : i \in {j \in 0 .. 3 : drawn[j + 1] # NoStampDrawn}} |->
        LET i == CHOOSE j \in 0 .. 3 : probe_slot(254, j) = s
        IN  i * ClockModulus + drawn[i + 1]]

InitTies ==
    /\ \E drawn \in [1 .. 4 -> StampInputs \cup {NoStampDrawn}] :
           /\ entries = WindowEntries(drawn)
           /\ stamp = WindowStamps(drawn)
           /\ insKeys = {WindowKey(i) : i \in {j \in 0 .. 3 : drawn[j + 1] # NoStampDrawn}}
           /\ insCalls = {<<WindowKey(i)[1], WindowKey(i)[2], 0>> :
                             i \in {j \in 0 .. 3 : drawn[j + 1] # NoStampDrawn}}
           /\ firstIns = IF \A j \in 1 .. 4 : drawn[j] = NoStampDrawn THEN NoKey
                         ELSE WindowKey(SetMin({j \in 0 .. 3 : drawn[j + 1] # NoStampDrawn}))
    /\ stats = ZeroStats
    /\ enabled = 1
    /\ clock = TieStart % ClockModulus
    /\ outage = NoOutage
    /\ ticks = TieStart
    /\ cop = NoOp
    /\ lastInsTick = 0 - 1
    /\ lastReset = "init"
    /\ QualityInit
    /\ NoiseInit
    /\ FixedInit
    /\ FftInit
    /\ ThreadsInit
    /\ last = "none"

TieKeys == {<<254, 0>>, <<510, 0>>}

TieInsert ==
    \E k \in TieKeys :
        /\ ticks < TieStart + MaxTieCalls
        /\ picodt_cache_insert(k[1], k[2], 1)
        /\ CacheFrame

TieLookup ==
    \E k \in TieKeys :
        /\ ticks < TieStart + MaxTieCalls
        /\ stats.misses < MaxTieCalls
        /\ picodt_cache_lookup(k[1], k[2])
        /\ CacheFrame

NextTies ==
    \/ TieInsert
    \/ TieLookup

SpecTies == InitTies /\ [][NextTies]_vars

-----------------------------------------------------------------------------
(* Properties of the cache *)

KeyOf(call) == <<call.hash, call.tree>>

\* C1: for every key (context_hash, tree_id), at most one valid entry with
\* that key exists among the four slots of the key's probe window, also
\* after the same key was inserted more than once.
C1_AtMostOneEntryPerKey ==
    \A k \in Keys : Cardinality(match_offsets(entries, k[1], k[2])) <= 1

\* C2: on an enabled cache, insert(h, t, p) immediately followed by
\* lookup(h, t) reports a hit and returns p, the value of that insert, also
\* when (h, t) was already cached with another value.
C2_LookupReturnsLatestInsert ==
    (cop.op = "lookup" /\ cop.done /\ cop.follows # NoPdf)
        => (cop.ret = 1 /\ cop.out = cop.follows)

\* the fill of the probe window plus one: ProbeWindow + 1 effective inserts
\* since the reset, of pairwise distinct keys that share one primary index,
\* the last of them at tick ProbeWindow (so no lookup hit came in between)
FilledPlusOne ==
    /\ lastInsTick = ProbeWindow
    /\ Cardinality(insKeys) = ProbeWindow + 1
    /\ \A k \in insKeys : get_cache_index(k[1]) = get_cache_index(firstIns[1])

\* C8: from an empty, enabled cache, after inserting five distinct keys that
\* share one primary index with no lookups in between, the first-inserted
\* key is the one evicted: evictions is 1, the first key is in no slot of
\* the window and a lookup of it misses (and hit_rate shows the miss), the
\* other four keys are stored and a lookup of any of them hits.
C8_FirstInsertedIsEvicted ==
    FilledPlusOne =>
        /\ stats.evictions = 1
        /\ match_offsets(entries, firstIns[1], firstIns[2]) = {}
        /\ \A k \in insKeys \ {firstIns} :
               match_offsets(entries, k[1], k[2]) # {}
        /\ (cop.op = "lookup" /\ KeyOf(cop) = firstIns) =>
               /\ cop.ret = 0
               /\ stats.misses >= 1
               /\ picodt_cache_hit_rate < 100
               /\ (stats.hits = 0 => picodt_cache_hit_rate = 0)
        /\ (cop.op = "lookup" /\ KeyOf(cop) \in insKeys \ {firstIns}) =>
               /\ cop.ret = 1
               /\ stats.hits >= 1

\* C8 witness: the fill was followed by a lookup of the first-inserted key,
\* which missed
C8_Witness ==
    /\ FilledPlusOne
    /\ cop.op = "lookup"
    /\ KeyOf(cop) = firstIns
    /\ cop.ret = 0
    /\ stats.evictions = 1

\* probe offset (1-based) of the slot the last insert wrote
WrittenOffset ==
    ((cop.slot + PICO_DT_CACHE_SIZE - get_cache_index(cop.hash))
        % PICO_DT_CACHE_SIZE) + 1

\* C9: whenever insert overwrites a valid entry because all four slots of
\* the window are valid, the overwritten entry is the least recently used
\* of the four: its last insert or lookup hit is the earliest in the actual
\* order of the calls, for runs of any length.
C9_EvictsLeastRecentlyUsed ==
    (cop.op = "insert" /\ cop.evicted) =>
        \A i \in 1 .. ProbeWindow :
            cop.prestamps[WrittenOffset] <= cop.prestamps[i]

\* C10: clear invalidates every slot, sets the four counters and the clock
\* to 0 and leaves the enabled flag as it was; right after clear hit_rate
\* is 0, and every lookup misses until the next insert.
C10_ClearResets ==
    /\ (cop.op = "clear") =>
           /\ \A i \in Slots : ~Entry(entries, i).valid
           /\ stats.hits = 0
           /\ stats.misses = 0
           /\ stats.collisions = 0
           /\ stats.evictions = 0
           /\ clock = 0
           /\ enabled = cop.pre_enabled
           /\ picodt_cache_hit_rate = 0
    /\ (lastReset = "clear" /\ insKeys = {} /\ cop.op = "lookup") =>
           /\ cop.ret = 0
           /\ cop.out = NoPdf
           /\ stats.hits = 0
           /\ picodt_cache_hit_rate = 0

\* C10 witness: after a clear of a cache that held a key, an enabled lookup
\* of that key ran before any insert, and missed
C10_Witness ==
    /\ lastReset = "clear"
    /\ insKeys = {}
    /\ cop.op = "lookup"
    /\ cop.done
    /\ cop.ret = 0
    /\ \E i \in DOMAIN entries : /\ entries[i].context_hash = cop.hash
                                 /\ entries[i].tree_id = cop.tree

-----------------------------------------------------------------------------
(* Properties of the voice and prosody parameter model *)

\* lo <= x <= hi for a value that is a number
InRange(x, lo, hi) == x # NaN /\ lo <= x /\ x <= hi

\* the documented bounds: pitch 0.5 - 2.0, speed 0.5 - 3.0, formant shift
\* -500 - +500 Hz, mode Speed, Balanced or Quality
VoiceInBounds(v) ==
    /\ InRange(v.pitch_scale, 50, 200)
    /\ InRange(v.speed_scale, 50, 300)
    /\ InRange(v.formant_shift, -50000, 50000)
    /\ v.quality_mode \in {0, 1, 2}

\* C3: pico_set_voice_params given a record with any field out of bounds
\* returns an error and leaves the active voice parameters as they were;
\* given a record with every field in bounds it returns PICO_OK and the
\* four active fields equal the record.
C3_SetVoiceParamsAllOrNothing ==
    (qop.op = "set_voice_params" /\ ~qop.null) =>
        IF VoiceInBounds(qop.voice)
        THEN qop.ret = "PICO_OK" /\ voice_params = qop.voice
        ELSE qop.ret # "PICO_OK" /\ voice_params = qop.pre_voice

\* C4: in every reachable state, from program start on, the active voice
\* parameters are within their documented bounds.
C4_ActiveVoiceParamsValid == VoiceInBounds(voice_params)

\* the presets as documented (picoqualityenhance.h:361-367) over the
\* documented defaults 1.0, 1.0, 0, Balanced, 1.0, 1.0, 50
DocumentedVoice(profile) ==
    CASE profile = 1 -> VoiceRecord(80, 100, -12000, 1)
      [] profile = 2 -> VoiceRecord(125, 100, 15000, 1)
      [] profile = 3 -> VoiceRecord(150, 110, 0, 1)
      [] profile = 4 -> VoiceRecord(90, 100, 0, 1)
      [] profile = 5 -> VoiceRecord(100, 75, 0, 1)
      [] profile = 6 -> VoiceRecord(100, 140, 0, 1)
      [] OTHER -> VoiceRecord(100, 100, 0, 1)

DocumentedProsody(profile) ==
    CASE profile = 4 -> ProsodyRecord(50, 100, 50)
      [] profile = 5 -> ProsodyRecord(100, 130, 50)
      [] profile = 6 -> ProsodyRecord(100, 80, 50)
      [] OTHER -> ProsodyRecord(100, 100, 50)

\* C5: after pico_apply_voice_profile(p), for each of the seven profiles and
\* from any prior state, every field of both parameter sets equals p's
\* override where p has one and the documented default otherwise.
C5_ProfileSetsEveryField ==
    (qop.op = "apply_voice_profile" /\ qop.profile \in 0 .. 6) =>
        /\ voice_params = DocumentedVoice(qop.profile)
        /\ prosody_params = DocumentedProsody(qop.profile)

\* C6: pico_apply_voice_profile(FEMALE) leaves pitch_scale 1.25 and
\* formant_shift 150, whatever values were active before the call.
C6_FemaleProfile ==
    (qop.op = "apply_voice_profile" /\ qop.profile = PICO_VOICE_PROFILE_FEMALE) =>
        /\ voice_params.pitch_scale = 125
        /\ voice_params.formant_shift = 15000

\* C6 witness: FEMALE was applied over custom voice and prosody values
C6_Witness ==
    /\ qop.op = "apply_voice_profile"
    /\ qop.profile = PICO_VOICE_PROFILE_FEMALE
    /\ qop.pre_voice.pitch_scale = 200
    /\ qop.pre_voice.formant_shift = 50000
    /\ qop.pre_prosody.emphasis_scale = 150
    /\ voice_params.pitch_scale = 125

\* C7: profile A followed by profile B leaves pitch_scale, speed_scale,
\* formant_shift, emphasis_scale and pause_scale as B applied to the default
\* state leaves them: no override of A survives.
C7_SecondProfileWins ==
    (qop.op = "apply_voice_profile" /\ qop.profile \in 0 .. 6 /\ qprev) =>
        LET v == profile_voice(DefaultVoice, qop.profile)
            r == clamped_prosody(profile_prosody(DefaultProsody, qop.profile))
        IN
        /\ voice_params.pitch_scale = v.pitch_scale
        /\ voice_params.speed_scale = v.speed_scale
        /\ voice_params.formant_shift = v.formant_shift
        /\ prosody_params.emphasis_scale = r.emphasis_scale
        /\ prosody_params.pause_scale = r.pause_scale

\* C7 witness: FEMALE was applied right after a profile that had overridden
\* speed_scale, and speed_scale is the default again
C7_Witness ==
    /\ qop.op = "apply_voice_profile"
    /\ qop.profile = PICO_VOICE_PROFILE_FEMALE
    /\ qprev
    /\ qop.pre_voice.speed_scale = PICO_CHILD_SPEED_SCALE
    /\ voice_params.speed_scale = 100

\* floor(hits * 100 / (hits + misses)) over the integers, 0 with no lookups
TruePercentage ==
    LET total == stats.hits + stats.misses IN
    IF total = 0 THEN 0
    ELSE DivWide(Times100Hi(stats.hits), Times100Lo(stats.hits), total)

\* C11: in every reachable state picodt_cache_hit_rate is in [0, 100] and
\* equals floor(hits * 100 / (hits + misses)), or 0 when there was no
\* lookup, for the true counts of hits and misses since the last clear.
C11_HitRateIsTruePercentage ==
    /\ picodt_cache_hit_rate \in 0 .. 100
    /\ picodt_cache_hit_rate = TruePercentage

\* C12: a lookup or insert made while the cache is disabled, or with a null
\* cache pointer, reports a miss (lookup) and stores nothing (insert), and
\* leaves every entry, the four statistics counters and the clock unchanged,
\* also when the key is stored.
C12_DisabledIsNoOp ==
    [][(/\ cop'.op \in {"lookup", "insert"}
        /\ (cop'.pre_enabled = 0 \/ cop'.null))
       => (/\ cop'.ret = 0
           /\ cop'.out = NoPdf
           /\ entries' = entries
           /\ stats' = stats
           /\ clock' = clock)]_vars

\* C12 witness: a lookup of a stored key was made on the disabled cache and
\* reported a miss
C12_Witness ==
    /\ cop.op = "lookup"
    /\ cop.pre_enabled = 0
    /\ ~cop.null
    /\ match_offsets(entries, cop.hash, cop.tree) # {}
    /\ cop.ret = 0

\* x clamped into [lo, hi]: the value of the range nearest to x
ClampedTo(x, y, lo, hi) ==
    /\ InRange(y, lo, hi)
    /\ InRange(x, lo, hi) => y = x
    /\ (x # NaN /\ x < lo) => y = lo
    /\ (x # NaN /\ x > hi) => y = hi

\* C13: pico_set_prosody_params with a non-null record returns PICO_OK and
\* the active prosody set is the input with emphasis_scale and pause_scale
\* clamped into [0.5, 2.0] and question_boost clamped into [0, 100]; in-range
\* fields are stored unchanged and the active set is within the ranges.
C13_SetProsodyParamsClamps ==
    (qop.op = "set_prosody_params" /\ ~qop.null) =>
        /\ qop.ret = "PICO_OK"
        /\ ClampedTo(qop.prosody.emphasis_scale, prosody_params.emphasis_scale,
                     50, 200)
        /\ ClampedTo(qop.prosody.pause_scale, prosody_params.pause_scale, 50, 200)
        /\ ClampedTo(qop.prosody.question_boost, prosody_params.question_boost,
                     0, 100)

\* C14: pico_apply_voice_profile with a value that is none of the seven
\* profiles returns an error result and leaves the active voice and prosody
\* sets as they were before the call.
C14_UnknownProfileRejected ==
    (qop.op = "apply_voice_profile" /\ qop.profile \notin 0 .. 6) =>
        /\ qop.ret # "PICO_OK"
        /\ voice_params = qop.pre_voice
        /\ prosody_params = qop.pre_prosody

\* C15: pico_get_voice_params and pico_get_prosody_params called with a
\* non-null record before the first pico_quality_init return PICO_OK and the
\* documented defaults: pitch 1.0, speed 1.0, formant shift 0, Balanced mode,
\* emphasis 1.0, pause 1.0, question boost 50.
C15_GettersBeforeInitGiveDefaults ==
    /\ (qop.op = "get_voice_params" /\ ~qop.null /\ ~qop.ever_init) =>
           /\ qop.ret = "PICO_OK"
           /\ qop.voice = VoiceRecord(100, 100, 0, PICO_QUALITY_MODE_BALANCED)
    /\ (qop.op = "get_prosody_params" /\ ~qop.null /\ ~qop.ever_init) =>
           /\ qop.ret = "PICO_OK"
           /\ qop.prosody = ProsodyRecord(100, 100, 50)

-----------------------------------------------------------------------------
(* Properties of the life cycle *)

\* C16: pico_quality_init called while the context is initialized returns
\* PICO_OK and changes nothing: the voice parameters, the prosody
\* parameters, the noise filter, the random seed, the statistics and the
\* flag keep their values.
C16_InitIsIdempotent ==
    [][(last' = "quality" /\ qop'.op = "quality_init" /\ initialized # 0)
       => (/\ qop'.ret = "PICO_OK"
           /\ UNCHANGED <<voice_params, prosody_params, noise_filter,
                          random_seed, g_quality_stats, initialized>>)]_vars

\* C16 witness: init was called on an initialized context that held a
\* profile's parameters and counted statistics
C16_Witness ==
    /\ last = "quality"
    /\ qop.op = "quality_init"
    /\ qop.pre_initialized # 0
    /\ voice_params # DefaultVoice
    /\ prosody_params # DefaultProsody
    /\ g_quality_stats.noise_samples_generated > 0
    /\ g_quality_stats.filter_updates > 0

-----------------------------------------------------------------------------
(* Properties of the excitation generator *)

Add32(a, b) ==
    LET low == a[2] + b[2] IN
    <<(a[1] + b[1] + (low \div Word16)) % Word16, low % Word16>>

\* a * m modulo 2^32 for a natural number m, by doubling and adding
RECURSIVE TimesMod32(_, _)
TimesMod32(a, m) ==
    IF m = 0 THEN <<0, 0>>
    ELSE LET rest == TimesMod32(Add32(a, a), m \div 2) IN
         IF m % 2 = 1 THEN Add32(rest, a) ELSE rest

\* C19: a call of pico_generate_white_noise replaces the seed by
\* (seed * 1664525 + 1013904223) mod 2^32 and returns u - 16384, u being
\* bits 31..16 of the updated seed, and the returned value is within the
\* range of a signed 16-bit sample.
C19_WhiteNoiseSample ==
    (last = "noise" /\ nop.op = "generate_white_noise") =>
        LET updated == Add32(TimesMod32(nop.pre_seed, 1664525),
                             <<1013904223 \div Word16, 1013904223 % Word16>>)
            u       == updated[1]
        IN  /\ seed[nop.run] = updated
            /\ nop.ret = u - 16384
            /\ nop.ret \in -32768 .. 32767

\* C20: after k calls of pico_generate_shaped_noise on a filter initialised
\* with order n, with or without coefficient updates in between, state[i]
\* for i < min(k, n) is the sample returned i calls before the latest,
\* state[i] for min(k, n) <= i < n is still 0, the entries from n on are as
\* init left them (0), and the order is n, within 1 .. 8, unchanged by the
\* calls.  (Index i of the code is index i + 1 here.)
C20_StateHoldsLatestSamples ==
    filter.ready =>
        LET n == filter.order
            k == Len(samples)
        IN  /\ n \in 1 .. PICO_NOISE_FILTER_ORDER
            /\ \A i \in 1 .. PICO_NOISE_FILTER_ORDER :
                   /\ (i <= n /\ i <= k) => filter.state[i] = samples[i]
                   /\ (i <= n /\ i > k) => filter.state[i] = 0
                   /\ i > n => filter.state[i] = 0
            /\ (/\ last = "noise"
                /\ nop.op \in {"generate_shaped_noise", "noise_filter_update"}
                /\ nop.pre_filter.ready)
               => filter.order = nop.pre_filter.order

\* C20 witness: three samples were drawn from a filter of order 2 whose
\* coefficients were updated, and the latest two are distinct and not 0
C20_Witness ==
    /\ filter.ready
    /\ filter.order = 2
    /\ Len(samples) = 3
    /\ g_quality_stats.filter_updates > 0
    /\ filter.state[1] # 0
    /\ filter.state[2] # 0
    /\ filter.state[1] # filter.state[2]

\* C21: pico_noise_filter_update with non-null arguments returns PICO_OK,
\* overwrites coeffs[0 .. order-1] with the new values and adds one to
\* filter_updates, and leaves the state history, the order, coeffs[order .. 7]
\* and the other counters unchanged; with a null argument it returns an
\* error and changes neither the filter nor the statistics.
C21_FilterUpdateFrame ==
    [][(last' = "noise" /\ nop'.op = "noise_filter_update")
       => IF nop'.null
          THEN /\ nop'.ret # "PICO_OK"
               /\ filter' = filter
               /\ g_quality_stats' = g_quality_stats
          ELSE /\ nop'.ret = "PICO_OK"
               /\ \A i \in 1 .. PICO_NOISE_FILTER_ORDER :
                      filter'.coeffs[i] = IF i <= filter.order THEN nop'.coeffs[i]
                                         ELSE filter.coeffs[i]
               /\ filter'.state = filter.state
               /\ filter'.order = filter.order
               /\ g_quality_stats' =
                      [g_quality_stats EXCEPT !.filter_updates = @ + 1]]_vars

\* C21 witness: an update changed the coefficients of a filter of order 2
\* that held two samples in its state history
C21_Witness ==
    /\ last = "noise"
    /\ nop.op = "noise_filter_update"
    /\ ~nop.null
    /\ filter.order = 2
    /\ filter.coeffs # nop.pre_filter.coeffs
    /\ filter.state[1] # 0
    /\ filter.state[2] # 0
    /\ g_quality_stats.filter_updates = 1

-----------------------------------------------------------------------------
(* Properties of the fixed-point arithmetic *)

Clamp16(x) == IF x > 32767 THEN 32767 ELSE IF x < 0 - 32768 THEN 0 - 32768 ELSE x

\* C22: for all Q15 values a and b, pico_q15_add_sat(a, b) is a + b clamped
\* into [-32768, 32767] and pico_q15_sub_sat(a, b) is a - b clamped into
\* [-32768, 32767]: the result never leaves the Q15 range and is the
\* ordinary sum or difference whenever that is in range; add_sat(100, 200)
\* is 300.
C22_SaturatingAddSub ==
    /\ (last = "fixed" /\ fop.op = "q15_add_sat") =>
           /\ fop.ret = Clamp16(fop.a[1] + fop.b[1])
           /\ fop.ret \in -32768 .. 32767
           /\ (fop.a[1] + fop.b[1] \in -32768 .. 32767)
                  => fop.ret = fop.a[1] + fop.b[1]
           /\ (fop.a[1] = 100 /\ fop.b[1] = 200) => fop.ret = 300
    /\ (last = "fixed" /\ fop.op = "q15_sub_sat") =>
           /\ fop.ret = Clamp16(fop.a[1] - fop.b[1])
           /\ fop.ret \in -32768 .. 32767
           /\ (fop.a[1] - fop.b[1] \in -32768 .. 32767)
                  => fop.ret = fop.a[1] - fop.b[1]

C22_Witness ==
    /\ last = "fixed"
    /\ fop.op = "q15_add_sat"
    /\ fop.a = <<32767>>
    /\ fop.b = <<200>>
    /\ fop.ret = 32767

\* C23: for all Q15 values a and b, pico_q15_mult(a, b) is
\* floor(a * b / 2^15), the exact product shifted right by 15 without
\* rounding, and that result is a Q15 value within [-32768, 32767] for
\* every pair, a = b = -32768 included.
C23_MultIsShiftedProduct ==
    (last = "fixed" /\ fop.op = "q15_mult") =>
        /\ fop.ret = (fop.a[1] * fop.b[1]) \div 32768
        /\ fop.ret \in -32768 .. 32767

\* the exact sum of the products a[i] * b[i], divided by 2^15 and floored
RECURSIVE FloorOfSum(_, _, _)
FloorOfSum(a, b, n) ==
    IF n = 0 THEN <<0, 0>>
    ELSE LET before == FloorOfSum(a, b, n - 1)
             p      == a[n] * b[n]
             low    == before[2] + (p % 32768)
         IN  <<before[1] + (p \div 32768) + (low \div 32768), low % 32768>>

\* C24: for all Q15 vectors a and b of one length, pico_q15_dot_product
\* returns floor((sum of a[i] * b[i]) / 2^15) of the exact sum of the
\* products: the accumulator neither overflows nor loses precision before
\* the one final shift.
C24_DotProductIsExact ==
    (last = "fixed" /\ fop.op = "q15_dot_product") =>
        /\ ~fop.trap
        /\ fop.ret = FloorOfSum(fop.a, fop.b, Len(fop.a))[1]

-----------------------------------------------------------------------------
(* Properties of the spectral transform *)

\* C25: pico_fft_initialize succeeds only for fft_size 256 or 512; any
\* other size returns an error without allocating or writing *context, a
\* null context pointer returns the null-pointer error and a failed
\* allocation returns out-of-memory; every context it produces has
\* initialized = 1 and a size of 256 or 512, which no forward or inverse
\* call changes; forward and inverse on a null or uninitialized context
\* return an error and leave the arrays as they were.
C25_FftContextLifecycle ==
    [][last' = "fft" =>
        /\ fft_op'.op = "fft_initialize" =>
            /\ fft_op'.ret = "PICO_OK" =>
                   /\ fft_op'.size \in {256, 512}
                   /\ fft_context' = Context(fft_op'.size, 1)
                   /\ fft_allocs' = fft_allocs + 1
            /\ fft_op'.ret # "PICO_OK" =>
                   /\ fft_context' = fft_context
                   /\ fft_allocs' = fft_allocs
            /\ fft_op'.null => fft_op'.ret = "PICO_ERR_NULLPTR_ACCESS"
            /\ (~fft_op'.null /\ fft_op'.size \notin {256, 512}) =>
                   fft_op'.ret \notin {"PICO_OK", "PICO_EXC_OUT_OF_MEM"}
            /\ (~fft_op'.null /\ fft_op'.size \in {256, 512}) =>
                   fft_op'.ret = IF fft_op'.alloc_ok THEN "PICO_OK"
                                 ELSE "PICO_EXC_OUT_OF_MEM"
        /\ fft_op'.op \in {"fft_forward", "fft_inverse"} =>
            /\ fft_context' = fft_context
            /\ (fft_context.null \/ fft_context.initialized = 0) =>
                   /\ fft_op'.ret # "PICO_OK"
                   /\ fft_mem' = fft_mem
        /\ pico_fft_is_valid(fft_context') =>
            /\ fft_context'.initialized = 1
            /\ fft_context'.fft_size \in {256, 512}]_vars

C25_Witness ==
    /\ last = "fft"
    /\ fft_op.op = "fft_initialize"
    /\ fft_op.size = 128
    /\ fft_op.alloc_ok
    /\ fft_op.ret = "PICO_ERR_OTHER"
    /\ fft_context = Context(512, 1)
    /\ fft_allocs = 1

\* C26: pico_fft_forward called with real and imag being one array leaves
\* every real part at its index, as it does with two arrays: the DC part at
\* index 0, the parts of bins 1 .. n/2-1, the Nyquist part at n/2 and the
\* mirrored parts above n/2.
C26_ForwardInPlaceKeepsRealParts ==
    [][(/\ last' = "fft"
        /\ fft_op'.op = "fft_forward"
        /\ fft_op'.ret = "PICO_OK"
        /\ \E sig \in Signals :
               fft_mem[fft_op'.real] = Signal(sig, fft_context.fft_size))
       => LET n   == fft_context.fft_size
              sig == fft_mem[fft_op'.real][1].sig
          IN  \A i \in 0 .. n - 1 :
                  fft_mem'[fft_op'.real][i + 1]
                      = Bin("re", sig, IF i <= n \div 2 THEN i ELSE n - i)]_vars

-----------------------------------------------------------------------------
(* Properties of the cache under two threads *)

\* no call is in progress
Quiescent == \A t \in Threads : threads[t].pc \in {"idle", "done"}

\* the associations (context_hash, tree_id, pdf_index) some insert was
\* called with
Inserted ==
    {<<k[1], k[2], 0>> : k \in insKeys}
        \cup {<<threads[t].hash, threads[t].tree, threads[t].pdf>> :
                  t \in {u \in Threads : threads[u].op = "insert"}}

\* the lookup after the threads' calls hit and gave a pdf_index that no
\* insert gave its key
LookupOfMixedSlot ==
    /\ cop.op = "lookup"
    /\ cop.ret = 1
    /\ <<cop.hash, cop.tree, cop.out>> \notin Inserted

\* a valid slot holds a key with a pdf_index no insert gave that key
MixedSlot ==
    \E idx \in DOMAIN entries :
        /\ entries[idx].valid
        /\ <<entries[idx].context_hash, entries[idx].tree_id,
             entries[idx].pdf_index>> \notin Inserted

\* two calls were stamped with one clock value
SameStamp ==
    /\ threads[1].stamped
    /\ threads[2].stamped
    /\ threads[1].tmp = threads[2].tmp

\* the clock is behind the number of calls that were stamped
LostTick ==
    clock # (ticks + Cardinality({t \in Threads : threads[t].stamped}))
                % ClockModulus

\* C28: when every call of the cache runs under one common lock, no call
\* is ever in progress beside another, and once the calls have returned no
\* slot holds the key of one insert with the pdf_index of another (a later
\* lookup returns a pdf_index inserted for its key), no two calls carry one
\* clock value and the clock has advanced once per stamped call; without
\* the lock, steps of two inserts (or of an insert and a hitting lookup)
\* interleave and such states are reached.
C28_LockExcludesTornStates ==
    locking =>
        /\ Cardinality({t \in Threads : threads[t].pc \notin {"idle", "done"}}) <= 1
        /\ Quiescent => (/\ ~MixedSlot
                         /\ ~LookupOfMixedSlot
                         /\ ~SameStamp
                         /\ ~LostTick)

C28_Witness ==
    /\ ~locking
    /\ \A t \in Threads : threads[t].pc = "done" /\ threads[t].op = "insert"
    /\ MixedSlot
    /\ LookupOfMixedSlot
    /\ SameStamp
    /\ LostTick
    /\ clock = 2

-----------------------------------------------------------------------------
(* Properties of single calls of the cache *)

\* the slot at probe offset i of the window of hash h
Probed(h, i) == ((h % 256) + i) % 256

\* C29: on an enabled cache, with a non-null output, picodt_cache_lookup(h,
\* t) probes the slots (h mod N + i) mod N, i = 0 .. 3, in this order and
\* hits on the first valid entry whose context_hash and tree_id both match:
\* it returns that entry's pdf_index, sets the entry's access order to the
\* current clock value, advances the clock by one mod 256, increments hits,
\* and increments collisions if and only if i > 0; if none of the four
\* matches it increments misses only and leaves every entry and the clock
\* unchanged.
C29_LookupProbesInOrder ==
    [][(last' = "cache" /\ cop'.op = "lookup" /\ ~cop'.null /\ enabled # 0)
       => LET h == cop'.hash
              t == cop'.tree
              matching == {i \in 0 .. 3 :
                              /\ Entry(entries, Probed(h, i)).valid
                              /\ Entry(entries, Probed(h, i)).context_hash = h
                              /\ Entry(entries, Probed(h, i)).tree_id = t}
          IN  IF matching # {}
              THEN LET i   == CHOOSE x \in matching : \A y \in matching : x <= y
                       idx == Probed(h, i)
                   IN  /\ cop'.ret = 1
                       /\ cop'.out = Entry(entries, idx).pdf_index
                       /\ Entry(entries', idx)
                              = [Entry(entries, idx) EXCEPT !.access_count = clock]
                       /\ \A s \in Slots \ {idx} :
                              Entry(entries', s) = Entry(entries, s)
                       /\ clock' = (clock + 1) % 256
                       /\ stats' = [stats EXCEPT
                              !.hits = @ + 1,
                              !.collisions = IF i > 0 THEN @ + 1 ELSE @]
              ELSE /\ cop'.ret = 0
                   /\ \A s \in Slots : Entry(entries', s) = Entry(entries, s)
                   /\ clock' = clock
                   /\ stats' = [stats EXCEPT !.misses = @ + 1]]_vars

C29_Witness ==
    /\ last = "cache"
    /\ cop.op = "lookup"
    /\ cop.ret = 1
    /\ cop.hash = 254
    /\ cop.slot = 255
    /\ stats.collisions = 1
    /\ stats.hits = 1
    /\ Cardinality(match_offsets(entries, 254, 0)) = 2

\* C30: on an enabled cache picodt_cache_insert(h, t, p) writes exactly one
\* slot and leaves all others unchanged: the primary slot h mod N if it is
\* invalid; otherwise the first invalid slot of the four of the probe
\* window, in probe order; otherwise the slot with the smallest access
\* order of the four, the lowest probe offset winning ties, also when all
\* four hold access order 255.
C30_InsertWritesOneSlot ==
    [][(last' = "cache" /\ cop'.op = "insert" /\ ~cop'.null /\ enabled # 0)
       => LET h == cop'.hash
              access(i) == Entry(entries, Probed(h, i)).access_count
              invalid  == {i \in 0 .. 3 : ~Entry(entries, Probed(h, i)).valid}
              smallest == {i \in 0 .. 3 : \A j \in 0 .. 3 : access(i) <= access(j)}
              offset   == IF 0 \in invalid THEN 0
                          ELSE IF invalid # {}
                               THEN CHOOSE x \in invalid : \A y \in invalid : x <= y
                          ELSE CHOOSE x \in smallest : \A y \in smallest : x <= y
              target   == Probed(h, offset)
          IN  /\ Entry(entries', target)
                     = [context_hash |-> h, pdf_index |-> cop'.pdf,
                        tree_id |-> cop'.tree, valid |-> TRUE,
                        access_count |-> clock]
              /\ \A s \in Slots \ {target} :
                     Entry(entries', s) = Entry(entries, s)]_vars

C30_Witness ==
    /\ last = "cache"
    /\ cop.op = "insert"
    /\ cop.hash = 254
    /\ cop.evicted
    /\ cop.slot = 254
    /\ cop.prestamps = <<255, 511, 767, 1023>>
    /\ Entry(entries, 254).access_count = TieStart % 256
    /\ \A s \in {255, 0, 1} : Entry(entries, s).access_count = 255

\* C31: every insert on an enabled cache stamps the slot it writes with the
\* value the clock held when the call began and advances the clock by one
\* modulo 256; evictions grows by one exactly when the written slot was
\* valid before the call and is otherwise unchanged; hits, misses and
\* collisions are unchanged.
C31_InsertStampsAndCounts ==
    [][(last' = "cache" /\ cop'.op = "insert" /\ ~cop'.null /\ enabled # 0)
       => LET written == cop'.slot
          IN  /\ Entry(entries', written).access_count = clock
              /\ clock' = (clock + 1) % 256
              /\ stats'.evictions
                     = stats.evictions
                       + (IF Entry(entries, written).valid THEN 1 ELSE 0)
              /\ stats'.hits = stats.hits
              /\ stats'.misses = stats.misses
              /\ stats'.collisions = stats.collisions]_vars

\* an insert that read the clock at 255, wrapped it to 0 and evicted
C31_Witness ==
    /\ last = "cache"
    /\ cop.op = "insert"
    /\ cop.evicted
    /\ ticks = 256
    /\ clock = 0
    /\ Entry(entries, cop.slot).access_count = 255
    /\ stats.evictions = 252

\* the sum over the taps 1 .. n of coeffs[i] * state[i], shifted down by 7
\* bits once: the floor of the sum over 128, computed from the quotients
\* and the remainders of the products so that no partial sum leaves 32 bits
RECURSIVE QuotientSum(_, _), RemainderSum(_, _)
QuotientSum(f, n) ==
    IF n = 0 THEN 0
    ELSE QuotientSum(f, n - 1) + ((f.coeffs[n] * f.state[n]) \div 128)

RemainderSum(f, n) ==
    IF n = 0 THEN 0
    ELSE RemainderSum(f, n - 1) + ((f.coeffs[n] * f.state[n]) % 128)

ShiftedSum(f, n) == QuotientSum(f, n) + (RemainderSum(f, n) \div 128)

\* C32: each call of pico_generate_shaped_noise on a filter of order n
\* returns, narrowed to 16 bits,
\* ((w * 2^8) - ((sum over i < n of coeffs[i] * state[i]) >> 7)) >> 8, with
\* w the white noise sample of the call and state the history before the
\* call: the products are summed first and shifted down once.
C32_ShapedNoiseShiftsTheSum ==
    (last = "noise" /\ nop.op = "generate_shaped_noise" /\ ~nop.null)
    => LET f == nop.pre_filter
           w == white_noise_sample(lcg_next(nop.pre_seed))
       IN  nop.ret = Int16(((w * 256) - ShiftedSum(f, f.order)) \div 256)

\* C33: pico_validate_voice_params returns PICO_OK if and only if
\* 0.5 <= pitch_scale <= 2.0, 0.5 <= speed_scale <= 3.0,
\* -500 <= formant_shift <= 500 and quality_mode is 0, 1 or 2, for every
\* value of each field, values that are not numbers included; for a null
\* record it returns the null-pointer error; it never changes the active
\* state.
C33_ValidateIffInBounds ==
    (last = "quality" /\ qop.op = "validate_voice_params")
    => /\ IF qop.null THEN qop.ret = "PICO_ERR_NULLPTR_ACCESS"
          ELSE (qop.ret = "PICO_OK") <=> VoiceInBounds(qop.voice)
       /\ voice_params = qop.pre_voice
       /\ prosody_params = qop.pre_prosody
       /\ initialized = qop.pre_initialized

\* C34: for every Q15 input x > 0 pico_q15_sqrt_approx completes its four
\* iterations without dividing by zero and returns a non-negative value
\* that fits Q15; for every x <= 0 it returns 0.
C34_SqrtNeverDividesByZero ==
    (last = "fixed" /\ fop.op = "q15_sqrt_approx") =>
        LET x == fop.a[1]
        IN  /\ ~fop.trap
            /\ fop.fault = "none"
            /\ x > 0 => (fop.wide \in 0 .. 32767 /\ fop.ret = fop.wide)
            /\ x <= 0 => fop.ret = 0

\* C35: pico_q15_recip_approx(0) returns 32767, and for every non-zero x
\* every intermediate value of the initial guess and of the three
\* iterations fits signed 32-bit arithmetic and the final guess fits the
\* 16-bit return type: the returned value is the computed guess.
C35_RecipStaysInRange ==
    (last = "fixed" /\ fop.op = "q15_recip_approx") =>
        LET x == fop.a[1]
        IN  /\ x = 0 => fop.ret = 32767
            /\ x # 0 => /\ ~fop.trap
                         /\ fop.fault = "none"
                         /\ fop.wide \in -32768 .. 32767
                         /\ fop.ret = fop.wide

\* C36: in sequential use, when picodt_cache_lookup(h, t) reports a hit
\* with value p, an insert(h, t, p) with exactly that hash, tree id and
\* value was performed since the last clear or initialize: no entry of
\* another key of the probe window, or of the same hash under another
\* tree id, is returned.
C36_HitWasInserted ==
    (last = "cache" /\ cop.op = "lookup" /\ cop.ret = 1)
    => <<cop.hash, cop.tree, cop.out>> \in insCalls

\* a hit on the key (254, 1) at probe offset 1, behind the entry of the
\* same hash under tree 0 with another value
C36_Witness ==
    /\ last = "cache"
    /\ cop.op = "lookup"
    /\ cop.ret = 1
    /\ KeyOf(cop) = <<254, 1>>
    /\ cop.slot = 255
    /\ cop.out = 1
    /\ entry_matches(entries, 254, 254, 0)
    /\ Entry(entries, 254).pdf_index = 0

C40_InitAfterCleanupStartsAnew ==
    [][(last' = "quality" /\ qop'.op = "quality_init" /\ initialized = 0
          /\ qop'.ever_init)
       => (/\ qop'.ret = "PICO_OK"
           /\ initialized' = 1
           /\ voice_params' = DefaultVoice
           /\ prosody_params' = DefaultProsody
           /\ random_seed' = 12345
           /\ noise_filter'.order = 8
           /\ noise_filter'.state = ZeroVector
           /\ noise_filter'.coeffs = ZeroVector
           /\ \A c \in DOMAIN g_quality_stats : g_quality_stats'[c] = 0)]_vars

\* C40 witness: init ran on a context that a cleanup had left uninitialized
\* and that held a profile's voice and prosody set; samples had been
\* generated, and nothing of it is left
C40_Witness ==
    /\ last = "quality"
    /\ qop.op = "quality_init"
    /\ qop.pre_initialized = 0
    /\ qop.ever_init
    /\ qop.pre_voice # DefaultVoice
    /\ qop.pre_prosody # DefaultProsody
    /\ Len(samples) > 0
    /\ voice_params = DefaultVoice
    /\ prosody_params = DefaultProsody
    /\ g_quality_stats = ZeroQualityStats
    /\ initialized = 1

-----------------------------------------------------------------------------
(* Properties of the context hashes *)

\* a ^ b for two bytes, from the sets of their one-bits
BitsOf(x) == {i \in 0 .. 7 : (x \div (2 ^ i)) % 2 = 1}

RECURSIVE SumOfPowers(_)
SumOfPowers(S) ==
    IF S = {} THEN 0
    ELSE LET i == CHOOSE x \in S : TRUE IN (2 ^ i) + SumOfPowers(S \ {i})

XorByte(a, b) ==
    SumOfPowers((BitsOf(a) \ BitsOf(b)) \cup (BitsOf(b) \ BitsOf(a)))

\* FNV-1a over the first n features: from 2166136261 = 33052 * 2^16 + 40389,
\* hash = ((hash XOR feature) * 16777619) mod 2^32 for each feature in order
RECURSIVE Fnv1a(_, _)
Fnv1a(features, n) ==
    IF n = 0 THEN <<33052, 40389>>
    ELSE LET hash == Fnv1a(features, n - 1)
             low  == hash[2] % 256
             x    == <<hash[1], (hash[2] - low) + XorByte(low, features[n])>>
             \* 16777619 = 2^24 + 403: x * 2^24 keeps the low byte of x, on top
             t24  == <<(x[2] % 256) * 256, 0>>
             t403 == <<((x[1] * 403) + ((x[2] * 403) \div Word16)) % Word16,
                       (x[2] * 403) % Word16>>
         IN  Add32(t24, t403)

\* C37: picodt_compute_context_hash(a, b, c, d, e) equals
\* picodt_compute_extended_hash of the array [a, b, c, d, e] for all byte
\* values; both are FNV-1a from 2166136261 with the prime 16777619, folding
\* the features in order; the extended hash of no features is 2166136261.
C37_ContextHashIsExtendedHash ==
    /\ (last = "hash" /\ hop.op = "compute_context_hash")
       => LET f == SubSeq(hop.features, 1, 5)
          IN  /\ hop.ret = picodt_compute_extended_hash(f)
              /\ hop.ret = Fnv1a(f, 5)
    /\ (last = "hash" /\ hop.op = "compute_extended_hash")
       => /\ hop.ret = Fnv1a(hop.features, Len(hop.features))
          /\ hop.features = <<>> => hop.ret = <<33052, 40389>>

\* the five-argument hash of (255, 0, 128, 151, 1), which is 602692606
C37_Witness ==
    /\ last = "hash"
    /\ hop.op = "compute_context_hash"
    /\ hop.features = <<255, 0, 128, 151, 1>>
    /\ hop.ret = <<9196, 23550>>

-----------------------------------------------------------------------------
(* Properties of the filter taps *)

\* C38: with all coefficients zero, whatever the state history,
\* pico_generate_shaped_noise returns the sample pico_generate_white_noise
\* returns for the same seed and leaves the same seed behind, call after
\* call: the i-th shaped call since the caller wrote its seeds gives what
\* the i-th white call on a seed written with the same value gave.
C38_ZeroCoefficientsGiveWhiteNoise ==
    (/\ last = "noise"
     /\ nop.op = "generate_shaped_noise"
     /\ ~nop.null
     /\ nop.pre_filter.coeffs = ZeroVector
     /\ Len(trace[1]) >= Len(trace[0]))
    => /\ trace[1][Len(trace[0])] = <<nop.ret, seed[0]>>
       /\ nop.ret = filter.state[1]

\* the third shaped sample of a run, drawn with zero coefficients that
\* replaced others, on a history that is not zero
C38_Witness ==
    /\ last = "noise"
    /\ nop.op = "generate_shaped_noise"
    /\ ~nop.null
    /\ nop.pre_filter.coeffs = ZeroVector
    /\ nop.pre_filter.order = 2
    /\ nop.pre_filter.state[1] # 0
    /\ nop.pre_filter.state[2] # 0
    /\ g_quality_stats.filter_updates > 0
    /\ Len(trace[0]) = 3
    /\ Len(trace[1]) = 3
    /\ nop.ret # 0

=============================================================================
